---- MODULE Spec2Model ----
(***************************************************************************)
(* A model of the charcole repository: the Zod-to-OpenAPI helpers of       *)
(* @charcoles/swagger (convertZodToOpenAPI, extractBodySchema,             *)
(* registerSchemas, getCommonResponses), setupSwagger, the                 *)
(* create-charcole CLI (mergePackageJson, copyDirRecursive, main) and the  *)
(* validateRequest, asyncHandler and errorHandler middlewares and the auth *)
(* module (AuthService, AuthController, requireAuth, userRepo) of the      *)
(* generated apps.                                                         *)
(*                                                                         *)
(* JavaScript objects are functions from string keys to values: a key is   *)
(* present iff it is in the DOMAIN.  `delete o.k` is DeleteKey, an object  *)
(* spread {...a, ...b} is Spread.                                          *)
(***************************************************************************)
EXTENDS Integers, Sequences, FiniteSets, TLC

VARIABLES
    cv,    \* a call of convertZodToOpenAPI on its own
    rs,    \* registerSchemas: the for..of loop over Object.entries(schemas)
    sw,    \* a call of setupSwagger(app, options)
    cr,    \* getCommonResponses() and the callers of the objects it returned
    mg,    \* mergePackageJson applied to a base manifest and two fragments
    cl,    \* one run of the create-charcole CLI (main of bin/index.js)
    ap,    \* one request served by a generated application
    au     \* the auth module of a generated application and its requests

vars == <<cv, rs, sw, cr, mg, cl, ap, au>>

-----------------------------------------------------------------------------
(* JavaScript objects *)

EmptyObj == [k \in {} |-> k]

HasKey(o, k) == k \in DOMAIN o

DeleteKey(o, k) == [x \in (DOMAIN o) \ {k} |-> o[x]]

\* {...a, ...b}: the keys of both, b's value on a collision
Spread(a, b) == [k \in (DOMAIN a) \cup (DOMAIN b) |-> IF k \in DOMAIN b THEN b[k] ELSE a[k]]

\* o with o[k] = v assigned
SetKey(o, k, v) == [x \in (DOMAIN o) \cup {k} |-> IF x = k THEN v ELSE o[x]]

-----------------------------------------------------------------------------
(* Zod schemas and the third-party converter zod-to-json-schema            *)

Names == {"A", "B", "C"}

\* the values a schemas map can hold that are falsy
Undefined == [kind |-> "undefined"]
Null == [kind |-> "null"]

Truthy(v) == v.kind \notin {"undefined", "null"}

\* What zodToJsonSchema does with a schema: it throws (an Error, or a value
\* that is null/undefined, thrown by user code it runs), or returns a JSON
\* Schema document whose shape is:
\*   withSchema : a `$schema` key at the top
\*   ref        : no `$ref`, a `$ref` to the definition named after `name`,
\*                or a `$ref` to a definition the map does not hold
\*   defs       : no `definitions`, or a map holding one definition under `name`
\*   defKeys    : the keys that definition carries besides `type`
RefKinds == {"none", "name", "missing"}
DefsKinds == {"none", "named"}
DefKeySets == SUBSET {"$schema", "definitions"}

Behaviours ==
    [mode : {"ok"}, withSchema : BOOLEAN, ref : RefKinds, defs : DefsKinds, defKeys : DefKeySets]
    \cup [mode : {"throwError", "throwNullish"}, withSchema : {FALSE}, ref : {"none"},
          defs : {"none"}, defKeys : {{}}]

SchemaUri == "http://json-schema.org/draft-07/schema#"

\* a `$ref` is held as its "/"-separated segments: "#/definitions/A"
RefTo(defName) == <<"#", "definitions", defName>>

DefinitionObj(keys) ==
    [k \in {"type"} \cup keys |->
        CASE k = "type" -> "object"
          [] k = "$schema" -> SchemaUri
          [] k = "definitions" -> [d \in {"Inner"} |-> [type |-> "string"]]]

ConverterDocument(b, name) ==
    LET ks == (IF b.withSchema THEN {"$schema"} ELSE {})
              \cup (IF b.ref # "none" THEN {"$ref"} ELSE {"type"})
              \cup (IF b.defs # "none" THEN {"definitions"} ELSE {})
    IN [k \in ks |->
        CASE k = "$schema" -> SchemaUri
          [] k = "type" -> "object"
          [] k = "$ref" -> RefTo(IF b.ref = "name" THEN name ELSE "Missing")
          [] k = "definitions" -> [d \in {name} |-> DefinitionObj(b.defKeys)]]

\* zodToJsonSchema(zodSchema, {name, target, $refStrategy})
ZodToJsonSchema(zodSchema, name) ==
    CASE zodSchema.conv.mode = "throwError" -> [kind |-> "throw", err |-> "Error"]
      [] zodSchema.conv.mode = "throwNullish" -> [kind |-> "throw", err |-> "nullish"]
      [] OTHER -> [kind |-> "return", val |-> ConverterDocument(zodSchema.conv, name)]

\* "a/b/c".split("/").pop()
LastSegment(ref) == ref[Len(ref)]

-----------------------------------------------------------------------------
(* helpers.js: convertZodToOpenAPI *)

\* if (o.$schema) delete o.$schema
StripSchema(o) == IF HasKey(o, "$schema") THEN DeleteKey(o, "$schema") ELSE o

\* if (o.definitions) delete o.definitions
StripDefinitions(o) == IF HasKey(o, "definitions") THEN DeleteKey(o, "definitions") ELSE o

\* the body of the try block, applied to the converter's document
PostProcess(jsonSchema) ==
    LET js == StripSchema(jsonSchema)
    IN IF /\ HasKey(js, "$ref")
          /\ HasKey(js, "definitions")
          /\ HasKey(js["definitions"], LastSegment(js["$ref"]))
       THEN StripSchema(js["definitions"][LastSegment(js["$ref"])])
       ELSE StripDefinitions(js)

\* a variant whose catch handler returns an empty object instead of null
ConvertZodToOpenAPIEmptyOnError(zodSchema, name) ==
    IF ~Truthy(zodSchema) THEN [kind |-> "null", warned |-> FALSE]
    ELSE LET r == ZodToJsonSchema(zodSchema, name)
         IN CASE r.kind = "throw" /\ r.err = "nullish" ->
                    [kind |-> "throw", warned |-> FALSE]
              [] r.kind = "throw" /\ r.err # "nullish" ->
                    [kind |-> "object", val |-> EmptyObj, warned |-> TRUE]
              [] OTHER ->
                    [kind |-> "object", val |-> PostProcess(r.val), warned |-> FALSE]

\* The completion of convertZodToOpenAPI(zodSchema, name):
\*   kind "object": it returns val;  kind "null": it returns null;
\*   kind "throw": the catch handler itself throws, reading `.message` of a
\*   thrown null/undefined.  warned: console.warn was called.
ConvertZodToOpenAPI(zodSchema, name) ==
    IF ~Truthy(zodSchema) THEN [kind |-> "null", warned |-> FALSE]
    ELSE LET r == ZodToJsonSchema(zodSchema, name)
         IN CASE r.kind = "throw" /\ r.err = "nullish" ->
                    [kind |-> "throw", warned |-> FALSE]
              [] r.kind = "throw" /\ r.err # "nullish" ->
                    [kind |-> "null", warned |-> TRUE]
              [] OTHER ->
                    [kind |-> "object", val |-> PostProcess(r.val), warned |-> FALSE]

-----------------------------------------------------------------------------
(* Zod schema values *)

\* _def.shape: "noDef" (no _def), "noShape" (no _def.shape), "throws"
\* (_def.shape is not callable or throws), "fields" (shape() returns fields)
ShapeKinds == {"noDef", "noShape", "throws", "fields"}

ZodSchema(shape, fields, conv) ==
    [kind |-> "zod", shape |-> shape, fields |-> fields, conv |-> conv]

LeafSchemas(convs) == {ZodSchema("noShape", EmptyObj, c) : c \in convs}

\* a variant that never looks for a body field
ExtractBodySchemaNoBody(schema) == IF ~Truthy(schema) THEN Null ELSE schema

\* helpers.js: extractBodySchema
ExtractBodySchema(schema) ==
    IF ~Truthy(schema) THEN Null
    ELSE IF /\ schema.shape = "fields"
            /\ HasKey(schema.fields, "body")
            /\ Truthy(schema.fields["body"])
         THEN schema.fields["body"]
         ELSE schema    \* no _def, no shape, shape() threw (caught), or no body

-----------------------------------------------------------------------------
(* helpers.js: registerSchemas *)

\* extractBodySchema(schema) || schema
ActualSchema(schema) ==
    IF Truthy(ExtractBodySchema(schema)) THEN ExtractBodySchema(schema) ELSE schema

\* a variant that stores whatever conversion returned, null included
RegisterEntryUnguarded(components, name, schema) ==
    LET actualSchema == ActualSchema(schema)
        converted == ConvertZodToOpenAPI(actualSchema, name)
    IN [kind |-> IF converted.kind = "throw" THEN "throw" ELSE "next",
        components |-> CASE converted.kind = "object" -> SetKey(components, name, converted.val)
                         [] converted.kind = "null" -> SetKey(components, name, Null)
                         [] OTHER -> components,
        skipped |-> FALSE,
        actual |-> actualSchema,
        converted |-> converted]

\* One iteration of the loop on the entry [name, schema], from the components
\* built so far.  kind "throw": the iteration throws out of registerSchemas.
RegisterEntry(components, name, schema) ==
    IF ~Truthy(schema)
    THEN [kind |-> "next", components |-> components, skipped |-> TRUE,
          actual |-> schema, converted |-> [kind |-> "null", warned |-> FALSE]]
    ELSE LET actualSchema == ActualSchema(schema)
             converted == ConvertZodToOpenAPI(actualSchema, name)
         IN [kind |-> IF converted.kind = "throw" THEN "throw" ELSE "next",
             components |-> IF converted.kind = "object"
                            THEN SetKey(components, name, converted.val)
                            ELSE components,
             skipped |-> FALSE,
             actual |-> actualSchema,
             converted |-> converted]

-----------------------------------------------------------------------------
(* helpers.js: getCommonResponses *)

BoolProp(example) == [type |-> "boolean", example |-> example]
StringProp(example) == [type |-> "string", example |-> example]

ResponseObj(description, properties) ==
    [description |-> description,
     content |-> [m \in {"application/json"} |->
                    [schema |-> [type |-> "object", properties |-> properties]]]]

FailureResponse(description, message) ==
    ResponseObj(description, [success |-> BoolProp(FALSE), message |-> StringProp(message)])

CommonResponseNames ==
    {"Success", "ValidationError", "Unauthorized", "Forbidden", "NotFound", "InternalError"}

\* the object literal getCommonResponses returns
GetCommonResponses ==
    [n \in CommonResponseNames |->
        CASE n = "Success" ->
                ResponseObj("Success",
                    [success |-> BoolProp(TRUE),
                     message |-> StringProp("Operation successful"),
                     data |-> [type |-> "object"]])
          [] n = "ValidationError" ->
                ResponseObj("Validation Error",
                    [success |-> BoolProp(FALSE),
                     message |-> StringProp("Validation failed"),
                     errors |-> [type |-> "array",
                                 items |-> [type |-> "object",
                                            properties |-> [field |-> [type |-> "string"],
                                                            message |-> [type |-> "string"]]]]])
          [] n = "Unauthorized" ->
                FailureResponse("Unauthorized - Invalid or missing token", "Unauthorized")
          [] n = "Forbidden" ->
                FailureResponse("Forbidden - Insufficient permissions", "Forbidden")
          [] n = "NotFound" ->
                FailureResponse("Resource not found", "Resource not found")
          [] n = "InternalError" ->
                FailureResponse("Internal server error", "Internal server error")]

\* A call of getCommonResponses() in a program whose heap holds the objects
\* returned so far: the literal is evaluated anew, so the call allocates.
\* a variant that builds the object once and returns the same one afterwards
CallGetCommonResponsesCached(heap) ==
    IF heap = <<>> THEN [heap |-> <<GetCommonResponses>>, ref |-> 1]
    ELSE [heap |-> heap, ref |-> 1]

CallGetCommonResponses(heap) ==
    [heap |-> Append(heap, GetCommonResponses), ref |-> Len(heap) + 1]

-----------------------------------------------------------------------------
(* setup.js: setupSwagger *)

DefaultPath == "/api-docs"

\* defaultOptions, restricted to the options the document depends on
DefaultOptions ==
    [k \in {"title", "version", "description", "path", "servers", "schemas",
            "includeCommonResponses", "customResponses"} |->
        CASE k = "title" -> "Charcole API"
          [] k = "version" -> "1.0.0"
          [] k = "description" -> "Auto-generated API documentation"
          [] k = "path" -> DefaultPath
          [] k = "servers" -> <<[url |-> "http://localhost:3000", description |-> "Local server"]>>
          [] k = "schemas" -> <<>>
          [] k = "includeCommonResponses" -> TRUE
          [] k = "customResponses" -> EmptyObj]

SecuritySchemes ==
    [bearerAuth |-> [type |-> "http", scheme |-> "bearer", bearerFormat |-> "JWT"]]

LogLine(level, msg) == [level |-> level, msg |-> msg]

\* the console.warn lines of the conversions that failed, from the loop's trace
ConvertWarnings(trace) ==
    LET failed == SelectSeq(trace, LAMBDA t : t.converted.warned)
    IN [i \in 1..Len(failed) |-> LogLine("warn", "Failed to convert Zod schema")]

\* The completion of the call registerSchemas(config.schemas) made by
\* setupSwagger, read off the loop: "none" when the call is not made.
NotRegistered == [kind |-> "none", components |-> EmptyObj, trace |-> <<>>]

Registered(loop) ==
    [kind |-> IF loop.pc = "thrown" THEN "throw" ELSE "return",
     components |-> loop.components,
     trace |-> loop.trace]

\* a variant without the try/catch: a throw of registerSchemas propagates
RegisterPhaseNoCatch(reg) ==
    CASE reg.kind = "none" -> [kind |-> "next", schemas |-> EmptyObj, log |-> <<>>]
      [] reg.kind = "return" ->
            [kind |-> "next", schemas |-> Spread(EmptyObj, reg.components),
             log |-> ConvertWarnings(reg.trace)
                     \o <<LogLine("log", "Auto-registered Zod schemas")>>]
      [] reg.kind = "throw" ->
            [kind |-> "throw", schemas |-> EmptyObj, log |-> ConvertWarnings(reg.trace)]

\* if (config.schemas && Object.keys(config.schemas).length > 0) try {...} catch {...}
\* on the completion reg of registerSchemas(config.schemas)
RegisterPhase(reg) ==
    CASE reg.kind = "none" -> [kind |-> "next", schemas |-> EmptyObj, log |-> <<>>]
      [] reg.kind = "return" ->
            [kind |-> "next", schemas |-> Spread(EmptyObj, reg.components),
             log |-> ConvertWarnings(reg.trace)
                     \o <<LogLine("log", "Auto-registered Zod schemas")>>]
      [] reg.kind = "throw" ->
            [kind |-> "next", schemas |-> EmptyObj,
             log |-> ConvertWarnings(reg.trace)
                     \o <<LogLine("warn", "Failed to register some Zod schemas")>>]

\* a variant that spreads the common responses last
ResponsesPhaseCommonLast(config) ==
    IF config["includeCommonResponses"]
    THEN Spread(config["customResponses"], GetCommonResponses)
    ELSE EmptyObj

\* if (config.includeCommonResponses) components.responses = {...common, ...custom}
ResponsesPhase(config) ==
    IF config["includeCommonResponses"]
    THEN Spread(GetCommonResponses, config["customResponses"])
    ELSE EmptyObj

\* the inline documentation the spec builder finds in the scanned source files
ScannedPaths == [p \in {"/api/health"} |-> [get |-> [summary |-> "Health check"]]]

\* swaggerJSDoc({definition, apis}): the definition plus the scanned paths
SwaggerJSDoc(definition) ==
    [k \in (DOMAIN definition) \cup {"paths"} |->
        IF k = "paths" THEN ScannedPaths ELSE definition[k]]

\* const config = { ...defaultOptions, ...options }
Config(options) == Spread(DefaultOptions, options)

\* config.schemas && Object.keys(config.schemas).length > 0
\* (config.schemas is held as Object.entries(config.schemas))
HasSchemas(config) == Len(config["schemas"]) > 0

\* setupSwagger(app, options), given the completion reg of its call of
\* registerSchemas: app is the list of routes mounted on the application.
\* kind "return": it returns doc;  kind "throw": it throws.
SetupSwagger(app, options, reg) ==
    LET config == Config(options)
        phase == RegisterPhase(reg)
        components == [securitySchemes |-> SecuritySchemes,
                       schemas |-> phase.schemas,
                       responses |-> ResponsesPhase(config)]
        openApiSpec == SwaggerJSDoc(
            [openapi |-> "3.0.0",
             info |-> [title |-> config["title"], version |-> config["version"],
                       description |-> config["description"]],
             servers |-> config["servers"],
             components |-> components])
    IN IF phase.kind = "throw"
       THEN [kind |-> "throw", app |-> app, log |-> phase.log, doc |-> EmptyObj]
       ELSE [kind |-> "return",
             app |-> Append(app, [path |-> config["path"], ui |-> openApiSpec]),
             log |-> phase.log \o <<LogLine("log", "Swagger UI available")>>,
             doc |-> openApiSpec]

-----------------------------------------------------------------------------
(* bin/index.js: mergePackageJson *)

Sections == {"dependencies", "devDependencies", "scripts"}

\* if (fragment[s]) merged[s] = {...merged[s], ...fragment[s]}
MergeSection(merged, fragment, s) ==
    IF HasKey(fragment, s)
    THEN SetKey(merged, s, Spread(IF HasKey(merged, s) THEN merged[s] ELSE EmptyObj,
                                  fragment[s]))
    ELSE merged

MergedOf(base, fragment) ==
    MergeSection(
        MergeSection(
            MergeSection(Spread(EmptyObj, base), fragment, "dependencies"),
            fragment, "devDependencies"),
        fragment, "scripts")

\* a variant that merges the fragment first, so the base wins a collision
MergePackageJsonBaseWins(base, fragment) ==
    [merged |-> [k \in DOMAIN MergedOf(base, fragment) |->
                    IF k \in Sections /\ HasKey(base, k) /\ HasKey(fragment, k)
                    THEN Spread(fragment[k], base[k])
                    ELSE MergedOf(base, fragment)[k]],
     base |-> base, fragment |-> fragment]

\* a variant that assigns into the base instead of into a copy of it
MergePackageJsonInPlace(base, fragment) ==
    [merged |-> MergedOf(base, fragment),
     base |-> MergedOf(base, fragment),
     fragment |-> fragment]

\* mergePackageJson(base, fragment): the object it returns, and its two
\* arguments as the call leaves them (it assigns only into its own copy)
MergePackageJson(base, fragment) ==
    [merged |-> MergedOf(base, fragment), base |-> base, fragment |-> fragment]

-----------------------------------------------------------------------------
(* bin/index.js: file trees and copyDirRecursive                           *)
(*                                                                         *)
(* A path is the sequence of its segments below a root directory (<<>> is  *)
(* the root itself).  A tree is the set of its directories and the set of  *)
(* its files.                                                              *)

EmptyTree == [dirs |-> {}, files |-> {}]

BaseName(p) == p[Len(p)]

IsUnder(p, dir) == Len(p) >= Len(dir) /\ SubSeq(p, 1, Len(dir)) = dir

\* fs.readdirSync(dir)
Entries(tree, dir) ==
    {p \in tree.dirs \cup tree.files : Len(p) = Len(dir) + 1 /\ IsUnder(p, dir)}

\* fs.mkdirSync(p, { recursive: true })
MkdirRecursive(tree, p) ==
    [tree EXCEPT !.dirs = @ \cup {SubSeq(p, 1, n) : n \in 0..Len(p)}]

\* fs.copyFileSync(src, dest), fs.writeFileSync(dest, ...)
PutFile(tree, dest) == [tree EXCEPT !.files = @ \cup {dest}]

\* fs.unlinkSync(p)
Unlink(tree, p) == [tree EXCEPT !.files = @ \ {p}]

\* fs.rmSync(p, { recursive: true, force: true })
RmRecursive(tree, p) ==
    [dirs |-> {d \in tree.dirs : ~IsUnder(d, p)},
     files |-> {f \in tree.files : ~IsUnder(f, p)}]

TarballName == "charcole-swagger-1.0.1.tgz"

\* entry.name.endsWith(".tgz"), over the names the trees hold
EndsWithTgz(name) == name = TarballName

\* a variant of the copy that leaves the exclusion list behind when it
\* descends into a directory
RECURSIVE CopyDirRecursiveTopLevelOnly(_, _, _, _, _, _)
CopyDirRecursiveTopLevelOnly(from, src, dest, excludeFiles, excludeDirs, tree) ==
    IF src \notin from.dirs THEN tree
    ELSE LET made == MkdirRecursive(tree, dest)
             kept == {e \in Entries(from, src) :
                         /\ BaseName(e) \notin excludeFiles
                         /\ ~EndsWithTgz(BaseName(e))
                         /\ ~(e \in from.dirs /\ BaseName(e) \in excludeDirs)}
             subs == {CopyDirRecursiveTopLevelOnly(from, e, Append(dest, BaseName(e)),
                                                   {}, excludeDirs, EmptyTree) :
                         e \in kept \cap from.dirs}
         IN [dirs |-> made.dirs \cup UNION {s.dirs : s \in subs},
             files |-> made.files
                         \cup {Append(dest, BaseName(e)) : e \in kept \cap from.files}
                         \cup UNION {s.files : s \in subs}]

\* a variant of the copy whose three tests are made on the entries of the
\* first directory only
RECURSIVE CopyDirRecursiveTestsAtTop(_, _, _, _, _, _)
CopyDirRecursiveTestsAtTop(from, src, dest, excludeFiles, excludeDirs, tree) ==
    IF src \notin from.dirs THEN tree
    ELSE LET made == MkdirRecursive(tree, dest)
             kept == {e \in Entries(from, src) :
                         \/ Len(src) > 1
                         \/ /\ BaseName(e) \notin excludeFiles
                            /\ ~EndsWithTgz(BaseName(e))
                            /\ ~(e \in from.dirs /\ BaseName(e) \in excludeDirs)}
             subs == {CopyDirRecursiveTestsAtTop(from, e, Append(dest, BaseName(e)),
                                                 excludeFiles, excludeDirs, EmptyTree) :
                         e \in kept \cap from.dirs}
         IN [dirs |-> made.dirs \cup UNION {s.dirs : s \in subs},
             files |-> made.files
                         \cup {Append(dest, BaseName(e)) : e \in kept \cap from.files}
                         \cup UNION {s.files : s \in subs}]

\* copyDirRecursive(src, dest, excludeFiles, excludeDirs): the tree `tree`
\* with what the walk of src in the tree `from` writes below dest
RECURSIVE CopyDirRecursive(_, _, _, _, _, _)
CopyDirRecursive(from, src, dest, excludeFiles, excludeDirs, tree) ==
    IF src \notin from.dirs THEN tree
    ELSE LET made == MkdirRecursive(tree, dest)
             kept == {e \in Entries(from, src) :
                         /\ BaseName(e) \notin excludeFiles
                         /\ ~EndsWithTgz(BaseName(e))
                         /\ ~(e \in from.dirs /\ BaseName(e) \in excludeDirs)}
             subs == {CopyDirRecursive(from, e, Append(dest, BaseName(e)),
                                       excludeFiles, excludeDirs, EmptyTree) :
                         e \in kept \cap from.dirs}
         IN [dirs |-> made.dirs \cup UNION {s.dirs : s \in subs},
             files |-> made.files
                         \cup {Append(dest, BaseName(e)) : e \in kept \cap from.files}
                         \cup UNION {s.files : s \in subs}]

-----------------------------------------------------------------------------
(* bin/index.js: the steps of main                                         *)

TemplateModulesDir == <<"src", "modules">>
AuthModulePath == <<"src", "modules", "auth">>
SwaggerModuleDir == <<"src", "modules", "swagger">>
SwaggerLibPath == <<"src", "lib", "swagger">>

AppFilePath(language) == <<"src", IF language = "ts" THEN "app.ts" ELSE "app.js">>

SwaggerConfigPath(language) ==
    <<"src", "config", IF language = "ts" THEN "swagger.config.ts" ELSE "swagger.config.js">>

\* the three substrings main looks for in the lines of the app file
SwaggerConfigImport(language) ==
    IF language = "ts"
    THEN "import swaggerOptions from \"./config/swagger.config\";"
    ELSE "import swaggerOptions from \"./config/swagger.config.js\";"
SetupSwaggerImport == "import { setupSwagger } from \"@charcoles/swagger\";"
SetupSwaggerCall == "setupSwagger(app, swaggerOptions);"

\* A line of text is its identity and the set of those substrings it holds:
\* trimmedLine.includes(s).  None of the three starts or ends with white
\* space, so line.trim() holds exactly the ones the line holds.  A file
\* content is the sequence content.split("\n"), and join("\n") is its inverse.
Includes(line, s) == s \in line.holds

\* a variant of the filter that leaves the call line in place
StripSwaggerLinesImportsOnly(appContent, language) ==
    SelectSeq(appContent,
              LAMBDA line : /\ ~Includes(line, SwaggerConfigImport(language))
                            /\ ~Includes(line, SetupSwaggerImport))

\* appContent.split("\n").filter(...).join("\n")
StripSwaggerLines(appContent, language) ==
    SelectSeq(appContent,
              LAMBDA line : /\ ~Includes(line, SwaggerConfigImport(language))
                            /\ ~Includes(line, SetupSwaggerImport)
                            /\ ~Includes(line, SetupSwaggerCall))

\* a variant of the loop that copies the swagger module when it is selected
CopyTemplateWithSwagger(template, auth, swagger, tree) ==
    LET base == CopyDirRecursive(template, <<>>, <<>>, {"basePackage.json"}, {"modules"}, tree)
        modules == {e \in Entries(template, TemplateModulesDir) \cap template.dirs :
                       BaseName(e) # "auth" /\ (BaseName(e) = "swagger" => swagger)}
        copies == {CopyDirRecursive(template, e, Append(TemplateModulesDir, BaseName(e)),
                                    {"package.json"}, {}, EmptyTree) : e \in modules}
    IN IF TemplateModulesDir \in template.dirs
       THEN [dirs |-> MkdirRecursive(base, TemplateModulesDir).dirs
                        \cup UNION {c.dirs : c \in copies},
             files |-> base.files \cup UNION {c.files : c \in copies}]
       ELSE base

\* The first copy and the loop over the module directories (172-223): the
\* auth branch copies nothing here, the swagger branch always continues.
CopyTemplate(template, auth, swagger, tree) ==
    LET base == CopyDirRecursive(template, <<>>, <<>>, {"basePackage.json"}, {"modules"}, tree)
        modules == {e \in Entries(template, TemplateModulesDir) \cap template.dirs :
                       BaseName(e) \notin {"auth", "swagger"}}
        copies == {CopyDirRecursive(template, e, Append(TemplateModulesDir, BaseName(e)),
                                    {"package.json"}, {}, EmptyTree) : e \in modules}
    IN IF TemplateModulesDir \in template.dirs
       THEN [dirs |-> MkdirRecursive(base, TemplateModulesDir).dirs
                        \cup UNION {c.dirs : c \in copies},
             files |-> base.files \cup UNION {c.files : c \in copies}]
       ELSE base

\* a variant in which a fragment that cannot be merged ends the run
MergeFragmentFatal(mergedPkg, fragment, module) ==
    CASE fragment.kind = "missing" ->
            [kind |-> "ok", pkg |-> mergedPkg,
             log |-> <<LogLine("error", module \o " module package.json not found")>>]
      [] fragment.kind \in {"invalid", "null"} ->
            [kind |-> "throw", pkg |-> mergedPkg, log |-> <<>>]
      [] OTHER ->
            [kind |-> "ok", pkg |-> MergePackageJson(mergedPkg, fragment.val).merged,
             log |-> <<>>]

\* a variant in which a key the manifest already has keeps its value
MergeFragmentKeepsEarlier(mergedPkg, fragment, module) ==
    CASE fragment.kind = "missing" ->
            [kind |-> "ok", pkg |-> mergedPkg,
             log |-> <<LogLine("error", module \o " module package.json not found")>>]
      [] fragment.kind \in {"invalid", "null"} ->
            [kind |-> "ok", pkg |-> mergedPkg,
             log |-> <<LogLine("error", "Failed to parse " \o module \o " module package.json")>>]
      [] OTHER ->
            [kind |-> "ok", pkg |-> MergePackageJsonBaseWins(mergedPkg, fragment.val).merged,
             log |-> <<>>]

\* if (fs.existsSync(pkgPath)) { try { JSON.parse; mergePackageJson } catch
\* { console.error } } else { console.error }.  A file that is not JSON makes
\* JSON.parse throw; the JSON text null makes mergePackageJson throw on
\* fragment.dependencies; both land in the catch.
MergeFragment(mergedPkg, fragment, module) ==
    CASE fragment.kind = "missing" ->
            [kind |-> "ok", pkg |-> mergedPkg,
             log |-> <<LogLine("error", module \o " module package.json not found")>>]
      [] fragment.kind \in {"invalid", "null"} ->
            [kind |-> "ok", pkg |-> mergedPkg,
             log |-> <<LogLine("error", "Failed to parse " \o module \o " module package.json")>>]
      [] OTHER ->
            [kind |-> "ok", pkg |-> MergePackageJson(mergedPkg, fragment.val).merged,
             log |-> <<>>]

\* the tarball of the swagger module, copied next to the manifest for the
\* install step (239-248)
CopyTarball(template, tree) ==
    IF Append(SwaggerModuleDir, TarballName) \in template.files
    THEN [tree |-> PutFile(tree, <<TarballName>>), log |-> <<>>]
    ELSE [tree |-> tree, log |-> <<LogLine("error", "Swagger tarball not found")>>]

\* copyDirRecursive(authModulePath, targetAuthPath, ["package.json"], [])
\* and the removal of a package.json found at the top of the copy (324-338)
CopyAuthModule(template, tree) ==
    Unlink(CopyDirRecursive(template, AuthModulePath, AuthModulePath,
                            {"package.json"}, {}, tree),
           Append(AuthModulePath, "package.json"))

\* the removals of the swagger=false branch after the app file is rewritten
\* (383-402)
RemoveSwaggerFiles(tree, language) ==
    RmRecursive(Unlink(tree, SwaggerConfigPath(language)), SwaggerLibPath)

\* a variant of the catch handler that ends the process normally
CatchExitsZero(err, tree) ==
    [code |-> 0, tree |-> tree,
     log |-> <<LogLine("error", "Failed to create Charcole project: " \o err)>>]

\* a variant of the catch handler that removes the target directory
CatchRollsBack(err, tree) ==
    [code |-> 1, tree |-> EmptyTree,
     log |-> <<LogLine("error", "Failed to create Charcole project: " \o err)>>]

\* catch (err) { console.error(...); console.error(err.stack); process.exit(1) }
\* with the target directory as the handler leaves it
Catch(err, tree) ==
    [code |-> 1, tree |-> tree,
     log |-> <<LogLine("error", "Failed to create Charcole project: " \o err)>>]

\* an exception leaves the try block with the target as `tree`
Thrown(state, tree, err) ==
    [state EXCEPT !.pc = "caught", !.tree = tree, !.atThrow = tree, !.err = err,
                  !.everWritten = @ \cup tree.files]

\* a step ends with the target as `tree` and the run goes on at `pc`
Stepped(state, pc, tree) ==
    [state EXCEPT !.pc = pc, !.tree = tree, !.everWritten = @ \cup tree.files]

\* a variant of the auth step that merges the module's manifest whether or
\* not the module is selected
AuthModuleAlwaysMerges(state) ==
    LET merge == MergeFragment(state.mergedPkg, state.in.authFragment, "auth")
    IN IF merge.kind = "throw" THEN Thrown(state, state.tree, "fragment")
       ELSE IF state.in.auth /\ state.in.failAt = "authCopy"
       THEN [Thrown(state, state.tree, "copy failed") EXCEPT
                !.mergedPkg = merge.pkg, !.log = @ \o merge.log]
       ELSE [Stepped(state, "strip", IF state.in.auth
                                     THEN CopyAuthModule(state.in.template, state.tree)
                                     ELSE state.tree)
                EXCEPT !.mergedPkg = merge.pkg, !.log = @ \o merge.log]

\* if (auth) { merge the module's manifest; copy the module } else { remove
\* a copied auth directory } (281-348)
AuthModule(state) ==
    IF ~state.in.auth
    THEN Stepped(state, "strip", IF AuthModulePath \in state.tree.dirs \cup state.tree.files
                                 THEN RmRecursive(state.tree, AuthModulePath)
                                 ELSE state.tree)
    ELSE IF AuthModulePath \notin state.in.template.dirs
    THEN [Stepped(state, "strip", state.tree) EXCEPT
             !.log = Append(@, LogLine("error", "Auth module not found"))]
    ELSE LET merge == MergeFragment(state.mergedPkg, state.in.authFragment, "auth")
         IN IF merge.kind = "throw"
            THEN Thrown(state, state.tree, "fragment")
            ELSE IF state.in.failAt = "authCopy"
            THEN [Thrown(state, state.tree, "copy failed") EXCEPT
                     !.mergedPkg = merge.pkg, !.log = @ \o merge.log]
            ELSE [Stepped(state, "strip", CopyAuthModule(state.in.template, state.tree))
                     EXCEPT !.mergedPkg = merge.pkg, !.log = @ \o merge.log]

\* a variant of the last assignment that keeps a name the manifest has
AssignNameIfAbsent(mergedPkg, projectName) ==
    IF HasKey(mergedPkg, "name") THEN mergedPkg ELSE SetKey(mergedPkg, "name", projectName)

\* mergedPkg.name = projectName
AssignName(mergedPkg, projectName) == SetKey(mergedPkg, "name", projectName)

\* JSON.stringify(mergedPkg, null, 2) and the JSON.parse that reads it back.
\* Every value of a manifest is a string or an object of strings, which
\* JSON writes and reads back unchanged; a key whose value is undefined
\* would be dropped, and no manifest holds one.
JsonStringify(obj) == [json |-> obj]
JsonParse(text) == text.json

-----------------------------------------------------------------------------
(* The generated application: env, AppError, errorHandler, validateRequest *)

ServerErrorMessage == "Internal server error"

\* new Date().toISOString()
Now == "2024-01-19T10:30:00.000Z"

\* config/env of the two templates.  The TypeScript env object carries the
\* three flags; the JavaScript module exports env = parseEnv() and the flags
\* as separate constants, so its env object has no isProduction key.
Env(template, nodeEnv) ==
    IF template = "ts"
    THEN [k \in {"NODE_ENV", "isDevelopment", "isProduction", "isTest"} |->
            CASE k = "NODE_ENV" -> nodeEnv
              [] k = "isDevelopment" -> (nodeEnv = "development")
              [] k = "isProduction" -> (nodeEnv = "production")
              [] OTHER -> (nodeEnv = "test")]
    ELSE [k \in {"NODE_ENV"} |-> nodeEnv]

\* env.isProduction as a condition: undefined is falsy
EnvIsProduction(env) == HasKey(env, "isProduction") /\ env["isProduction"]

\* A thrown value: its class (what instanceof sees), its message, and for
\* an AppError the fields its constructor sets.
ErrorValue(class, message) ==
    [class |-> class, message |-> message, isOperational |-> FALSE, statusCode |-> 0,
     code |-> "", context |-> EmptyObj, cause |-> "", errors |-> <<>>]

\* no error: the value of an error slot nothing was put in
NoError == ErrorValue("none", "")

\* new AppError(message, statusCode, { isOperational, code, context, cause })
AppErrorValue(class, message, statusCode, isOperational, code, context, cause) ==
    [class |-> class, message |-> message, isOperational |-> isOperational,
     statusCode |-> statusCode, code |-> code, context |-> context, cause |-> cause,
     errors |-> <<>>]

AppErrorClasses == {"AppError", "ValidationError", "InternalServerError", "NotFoundError"}

\* new ValidationError(message, errors)
ValidationErrorValue(message, errors) ==
    [AppErrorValue("ValidationError", message, 422, TRUE, "VALIDATION_ERROR", EmptyObj, "")
        EXCEPT !.errors = errors]

\* new InternalServerError(message, cause, context)
InternalServerErrorValue(message, cause, context) ==
    AppErrorValue("InternalServerError", message, 500, FALSE, "INTERNAL_SERVER_ERROR",
                  context, cause)

\* e.path.join(".")
RECURSIVE JoinPath(_)
JoinPath(path) ==
    IF path = <<>> THEN ""
    ELSE IF Len(path) = 1 THEN path[1]
    ELSE path[1] \o "." \o JoinPath(Tail(path))

\* errors.map((e) => ({ field: e.path.join("."), message: e.message, code: e.code }))
FieldErrors(issues) ==
    [i \in 1..Len(issues) |->
        [field |-> JoinPath(issues[i].path), message |-> issues[i].message,
         code |-> issues[i].code]]

ProgrammerErrorMessage(class) ==
    CASE class = "SyntaxError" -> "Syntax error in application code"
      [] class = "TypeError" -> "Type error in application"
      [] class = "ReferenceError" -> "Reference error in application"
      [] OTHER -> "Range error in application"

\* normalizeError of the two templates.  They differ on a thrown value that
\* is not an Error (here a string): the JavaScript one reads err.message,
\* which is undefined; the TypeScript one takes the string as the message.
NormalizeError(err, template) ==
    CASE err.class \in AppErrorClasses -> err
      [] err.class = "ZodError" ->
            ValidationErrorValue("Validation failed", FieldErrors(err.errors))
      [] err.class \in {"SyntaxError", "TypeError", "ReferenceError", "RangeError"} ->
            InternalServerErrorValue(ProgrammerErrorMessage(err.class), err.message,
                                     [type |-> err.class])
      [] err.class = "string" ->
            InternalServerErrorValue(IF template = "ts" THEN err.message
                                     ELSE ServerErrorMessage,
                                     err.message, [type |-> "UnknownError"])
      [] OTHER ->
            InternalServerErrorValue(IF err.message # "" THEN err.message
                                     ELSE ServerErrorMessage,
                                     err.message, [type |-> "UnknownError"])

\* AppError.prototype.toJSON, and the override of ValidationError
ToJSON(appError) ==
    LET keys == {"success", "message", "code", "statusCode", "timestamp"}
                  \cup (IF DOMAIN appError.context # {} THEN {"context"} ELSE {})
                  \cup (IF appError.class = "ValidationError" THEN {"errors"} ELSE {})
    IN [k \in keys |->
          CASE k = "success" -> FALSE
            [] k = "message" -> appError.message
            [] k = "code" -> appError.code
            [] k = "statusCode" -> appError.statusCode
            [] k = "context" -> appError.context
            [] k = "errors" -> appError.errors
            [] OTHER -> Now]

GenericErrorBody ==
    [k \in {"success", "message", "code", "timestamp"} |->
        CASE k = "success" -> FALSE
          [] k = "message" -> ServerErrorMessage
          [] k = "code" -> "INTERNAL_SERVER_ERROR"
          [] OTHER -> Now]

\* sendErrorResponse(res, appError): the status and the body it sends
SendErrorResponse(appError, env) ==
    LET statusCode == IF appError.statusCode # 0 THEN appError.statusCode ELSE 500
    IN IF ~appError.isOperational /\ EnvIsProduction(env)
       THEN [status |-> statusCode, body |-> GenericErrorBody]
       ELSE [status |-> statusCode, body |-> ToJSON(appError)]

\* errorHandler(err, req, res, next): normalizeError, logError,
\* sendErrorResponse
ErrorHandler(err, template, env) ==
    LET appError == NormalizeError(err, template)
    IN [response |-> SendErrorResponse(appError, env),
        log |-> <<LogLine(IF appError.isOperational THEN "warn" ELSE "error",
                          appError.code)>>]

\* sendValidationError(res, errors, statusCode = 422)
SendValidationError(issues) ==
    [status |-> 422,
     body |-> [k \in {"success", "message", "errors", "timestamp"} |->
                 CASE k = "success" -> FALSE
                   [] k = "message" -> "Validation failed"
                   [] k = "errors" -> FieldErrors(issues)
                   [] OTHER -> Now]]

\* What the middleware returned by validateRequest(schema) does with the
\* outcome of schema.parseAsync: it calls next(), sends a response itself,
\* calls next(error), or (an async function that throws) returns a promise
\* that rejects.
ValidateRequest(template, parsed) ==
    CASE parsed.kind = "ok" -> [kind |-> "next"]
      [] parsed.kind = "throw" /\ parsed.err.class = "ZodError" ->
            IF template = "ts"
            THEN [kind |-> "reject",
                  err |-> ValidationErrorValue("Request validation failed",
                                               FieldErrors(parsed.err.errors))]
            ELSE [kind |-> "send", response |-> SendValidationError(parsed.err.errors)]
      [] OTHER -> [kind |-> "nextError", err |-> parsed.err]

\* What the router does with a middleware whose promise rejects: Express 4
\* does not look at the promise, so the rejection is unhandled; Express 5
\* passes the reason to next.
RouterOnRejection(express) == IF express = "5" THEN "nextError" ELSE "unhandledRejection"

\* a variant of the wrapper that returns the handler's promise as it is
AsyncHandlerNoCatch(template, handler) ==
    CASE handler.kind = "ok" -> [kind |-> "return", err |-> NoError]
      [] handler.async -> [kind |-> "reject", err |-> handler.err]
      [] template = "ts" -> [kind |-> "next", err |-> handler.err]
      [] OTHER -> [kind |-> "throw", err |-> handler.err]

\* The call of the function asyncHandler(fn) returns, for a handler fn that
\* answers (kind "ok") or fails with err, by throwing (async FALSE) or by
\* returning a promise that rejects (async TRUE).
\*   ts: try { result = fn(..); if thenable: return result.catch(next);
\*             return result } catch (err) { return next(err) }
\*   js: return Promise.resolve(fn(..)).catch(next): an exception of fn
\*       leaves the wrapper before Promise.resolve is reached
\* kind "next": the wrapper calls next(err);  "throw": it throws err;
\* "reject": it returns a promise that rejects;  "return": none of these.
AsyncHandler(template, handler) ==
    CASE handler.kind = "ok" -> [kind |-> "return", err |-> NoError]
      [] handler.async -> [kind |-> "next", err |-> handler.err]
      [] template = "ts" -> [kind |-> "next", err |-> handler.err]
      [] OTHER -> [kind |-> "throw", err |-> handler.err]

\* What the router's layer does with the completion of a route function:
\* try { fn(req, res, next) } catch (err) { next(err) }, and a promise that
\* rejects as RouterOnRejection tells.
RouterHandle(express, completion) ==
    CASE completion.kind = "throw" -> [kind |-> "next", err |-> completion.err]
      [] completion.kind = "reject" /\ RouterOnRejection(express) = "nextError" ->
            [kind |-> "next", err |-> completion.err]
      [] OTHER -> completion

-----------------------------------------------------------------------------
(* The auth module of the generated application: userRepo, AuthService,   *)
(* AuthController, requireAuth and GET /protected/me                       *)

\* bcrypt.hash(password, SALT_ROUNDS); bcrypt.compare(password, hash) is
\* hash = BcryptHash(password)
BcryptHash(password) == "bcrypt(" \o password \o ")"

\* users.find((u) => u.email === email): no user, or the first one
FindByEmail(users, email) ==
    LET at == {i \in 1..Len(users) : users[i].email = email}
    IN IF at = {} THEN <<>> ELSE <<users[CHOOSE i \in at : \A j \in at : i <= j]>>

\* userRepo.create(data): the user it builds, pushes and returns; the
\* value of randomUUID() is the number of the call
CreateUser(template, users, data) ==
    LET uuid == IF users = <<>> THEN "uuid-1" ELSE "uuid-2"
    IN IF template = "ts"
       THEN [id |-> uuid, email |-> data.email, name |-> data.name,
             passwordHash |-> data.passwordHash, role |-> "user",
             provider |-> "credentials", isEmailVerified |-> FALSE,
             createdAt |-> Now, updatedAt |-> Now]
       ELSE [id |-> uuid, role |-> "user", email |-> data.email,
             name |-> data.name, passwordHash |-> data.passwordHash]

\* AuthService.signToken(payload): the TypeScript service throws when
\* JWT_SECRET is not defined, in the JavaScript service jwt.sign does
SignToken(template, payload, secret) ==
    IF ~secret
    THEN [kind |-> "throw",
          message |-> IF template = "ts"
                      THEN "JWT_SECRET environment variable is not defined"
                      ELSE "secretOrPrivateKey must have a value"]
    ELSE [kind |-> "return", token |-> "jwt:" \o payload.sub]

\* the payload of the one token that verifies
VerifiedPayload == [sub |-> "uuid-1", email |-> "a@x.io", role |-> "user"]

\* a variant that reads the token of a header of any scheme
RequireAuthAnyScheme(header, secret) ==
    IF header.scheme = "none"
    THEN [kind |-> "send", response |-> [status |-> 401, body |-> [message |-> "Unauthorized"],
                                         by |-> "requireAuth"]]
    ELSE IF secret /\ header.token = "valid"
    THEN [kind |-> "next", user |-> VerifiedPayload]
    ELSE [kind |-> "send", response |-> [status |-> 401, body |-> [message |-> "Invalid token"],
                                         by |-> "requireAuth"]]

\* requireAuth(req, res, next).  header.scheme "none": no Authorization
\* header; the header starts with "Bearer " iff the scheme is "Bearer";
\* header.token is authHeader.split(" ")[1].  jwt.verify returns the payload
\* of a token that verifies and throws on every other one.
RequireAuth(header, secret) ==
    IF header.scheme # "Bearer"
    THEN [kind |-> "send", response |-> [status |-> 401, body |-> [message |-> "Unauthorized"],
                                         by |-> "requireAuth"]]
    ELSE IF secret /\ header.token = "valid"
    THEN [kind |-> "next", user |-> VerifiedPayload]
    ELSE [kind |-> "send", response |-> [status |-> 401, body |-> [message |-> "Invalid token"],
                                         by |-> "requireAuth"]]

\* res.status(status).json(body) by the named function, which ends the request
Responded(req, status, body, by) ==
    [req EXCEPT !.pc = "done",
                !.response = <<[status |-> status, body |-> body, by |-> by]>>]

-----------------------------------------------------------------------------
(* The inputs *)

MaxEntries == 2

ThrowError == [mode |-> "throwError", withSchema |-> FALSE, ref |-> "none",
               defs |-> "none", defKeys |-> {}]
ThrowNullish == [mode |-> "throwNullish", withSchema |-> FALSE, ref |-> "none",
                 defs |-> "none", defKeys |-> {}]
\* what zod-to-json-schema returns when given a name: a $ref to the named definition
NamedRef == [mode |-> "ok", withSchema |-> FALSE, ref |-> "name", defs |-> "named",
             defKeys |-> {}]
\* a plain document carrying $schema
PlainDoc == [mode |-> "ok", withSchema |-> TRUE, ref |-> "none", defs |-> "none",
             defKeys |-> {}]

RsConvs == {ThrowError, ThrowNullish, NamedRef, PlainDoc}

\* every schema convertZodToOpenAPI is called on directly
CvSchemas == {Undefined, Null} \cup LeafSchemas(Behaviours)

\* the values of a schemas map given to registerSchemas
RsSchemas ==
    {Undefined, Null}
    \cup {ZodSchema("noDef", EmptyObj, NamedRef)}
    \cup LeafSchemas(RsConvs)
    \cup {ZodSchema("throws", EmptyObj, c) : c \in {NamedRef, ThrowError}}
    \cup {ZodSchema("fields", [f \in {"query"} |-> ZodSchema("noShape", EmptyObj, NamedRef)], PlainDoc)}
    \cup {ZodSchema("fields", [f \in {"body"} |-> b], c) :
            b \in LeafSchemas(RsConvs), c \in {PlainDoc, ThrowError}}

\* Object.entries of a schemas map: at most MaxEntries entries, the keys distinct
EntryLists ==
    UNION {{e \in [1..n -> [name : Names, schema : RsSchemas]] :
                \A i, j \in 1..n : i # j => e[i].name # e[j].name} : n \in 0..MaxEntries}

\* the values of the schemas option of setupSwagger
SwSchemas ==
    {Undefined}
    \cup LeafSchemas({NamedRef, ThrowError, ThrowNullish})
    \cup {ZodSchema("fields", [f \in {"body"} |-> ZodSchema("noShape", EmptyObj, NamedRef)], PlainDoc)}

SwEntryLists ==
    UNION {{e \in [1..n -> [name : Names, schema : SwSchemas]] :
                \A i, j \in 1..n : i # j => e[i].name # e[j].name} : n \in 0..MaxEntries}

\* a response object supplied by the user under the given name
CustomResponse(n) ==
    ResponseObj("Custom " \o n, [success |-> BoolProp(FALSE), message |-> StringProp(n)])

CustomNames == {"Success", "Conflict"}
CustomResponseMaps == {[n \in d |-> CustomResponse(n)] : d \in SUBSET CustomNames}

\* an option that may be absent: no value, or one of vals
Optional(vals) == {<<>>} \cup {<<v>> : v \in vals}

\* the options object holding the options that are given
OptionsObj(path, schemas, include, custom) ==
    [k \in (IF path # <<>> THEN {"path"} ELSE {})
           \cup (IF schemas # <<>> THEN {"schemas"} ELSE {})
           \cup (IF include # <<>> THEN {"includeCommonResponses"} ELSE {})
           \cup (IF custom # <<>> THEN {"customResponses"} ELSE {}) |->
        CASE k = "path" -> path[1]
          [] k = "schemas" -> schemas[1]
          [] k = "includeCommonResponses" -> include[1]
          [] k = "customResponses" -> custom[1]]

\* the routes already mounted on the application
PriorApps == {<<>>, <<[path |-> "/api", ui |-> EmptyObj]>>}

MaxCalls == 3

\* package manifests: each manifest writes its own version string, so that
\* the winner of a collision shows
PkgNames == {"a", "b"}

SectionMaps(keys, v) == {[k \in d |-> v] : d \in SUBSET keys}

ManifestObj(top, deps, dev, scripts) ==
    [k \in (DOMAIN top)
           \cup (IF deps # <<>> THEN {"dependencies"} ELSE {})
           \cup (IF dev # <<>> THEN {"devDependencies"} ELSE {})
           \cup (IF scripts # <<>> THEN {"scripts"} ELSE {}) |->
        CASE k = "dependencies" -> deps[1]
          [] k = "devDependencies" -> dev[1]
          [] k = "scripts" -> scripts[1]
          [] OTHER -> top[k]]

Manifests(top, v) ==
    {ManifestObj(top, deps, dev, scripts) :
        deps \in Optional(SectionMaps(PkgNames, v)),
        dev \in Optional({[k \in {"tsx"} |-> v]}),
        scripts \in Optional({[k \in {"dev"} |-> "run-" \o v]})}

BaseManifests == Manifests([name |-> "charcole-base", version |-> "1.0.0", type |-> "module"], "1")

FragmentManifests(n, v) ==
    Manifests([name |-> n, version |-> "0.0.1", license |-> "ISC"], v)

\* what a caller may do to an object getCommonResponses returned to it
MutableNames == {"Success", "NotFound"}

\* ---- the inputs of a run of the CLI

\* The template directory of a language, as far as main looks at it.  The
\* app file, the swagger config file, .env.example and the health and auth
\* modules are the template's; basePackage.json, the swagger module with its
\* manifest and tarball, the manifest of the auth module, src/lib/swagger
\* and manifests deeper inside a module are present or not.  stray: entries
\* with the excluded names (a basePackage.json, a directory named modules, a
\* tarball) lie deeper in the template, under src/config.
TemplateExtras ==
    {[libSwagger |-> TRUE, tarball |-> TRUE, nested |-> TRUE, stray |-> TRUE],
     [libSwagger |-> FALSE, tarball |-> FALSE, nested |-> FALSE, stray |-> FALSE],
     [libSwagger |-> TRUE, tarball |-> FALSE, nested |-> FALSE, stray |-> FALSE]}

TemplateTree(language, extras, base, swaggerFragment, authFragment) ==
    LET ext == IF language = "ts" THEN "ts" ELSE "js"
        swaggerModule == swaggerFragment.kind # "missing" \/ extras.tarball
    IN [dirs |->
            {<<>>, <<"src">>, <<"src", "config">>, <<"src", "routes">>, TemplateModulesDir,
             <<"src", "modules", "health">>, AuthModulePath}
            \cup (IF extras.libSwagger THEN {<<"src", "lib">>, SwaggerLibPath} ELSE {})
            \cup (IF extras.nested THEN {Append(AuthModulePath, "docs")} ELSE {})
            \cup (IF extras.stray THEN {<<"src", "config", "modules">>} ELSE {})
            \cup (IF swaggerModule THEN {SwaggerModuleDir} ELSE {}),
        files |->
            {<<".env.example">>, AppFilePath(language), SwaggerConfigPath(language),
             <<"src", "routes", "index." \o ext>>, <<"src", "routes", "protected." \o ext>>,
             <<"src", "modules", "health", "controller." \o ext>>,
             Append(AuthModulePath, "auth.service." \o ext),
             Append(AuthModulePath, "auth.routes." \o ext),
             Append(AuthModulePath, "auth.middlewares." \o ext),
             Append(AuthModulePath, "auth.schemas." \o ext)}
            \cup (IF base.kind # "missing" THEN {<<"basePackage.json">>} ELSE {})
            \cup (IF extras.libSwagger THEN {Append(SwaggerLibPath, "index." \o ext)} ELSE {})
            \cup (IF extras.nested
                  THEN {<<"src", "modules", "auth", "docs", "package.json">>,
                        <<"src", "modules", "health", "package.json">>}
                  ELSE {})
            \cup (IF extras.stray
                  THEN {<<"src", "config", "basePackage.json">>,
                        <<"src", "config", TarballName>>,
                        <<"src", "config", "modules", "index." \o ext>>}
                  ELSE {})
            \cup (IF swaggerFragment.kind # "missing"
                  THEN {Append(SwaggerModuleDir, "package.json")} ELSE {})
            \cup (IF extras.tarball THEN {Append(SwaggerModuleDir, TarballName)} ELSE {})
            \cup (IF authFragment.kind # "missing"
                  THEN {Append(AuthModulePath, "package.json")} ELSE {})]

\* The relative imports of the template's route and config files: the file
\* that holds the import and the file its specifier names.
RelativeImports(language) ==
    LET ext == IF language = "ts" THEN "ts" ELSE "js"
        routes == <<"src", "routes", "index." \o ext>>
        protected == <<"src", "routes", "protected." \o ext>>
        health == <<"src", "modules", "health", "controller." \o ext>>
    IN {[from |-> AppFilePath(language), to |-> routes],
        [from |-> routes, to |-> health],
        [from |-> routes, to |-> protected],
        [from |-> routes, to |-> Append(AuthModulePath, "auth.routes." \o ext)]}
       \cup (IF language = "ts"
             THEN {[from |-> protected, to |-> Append(AuthModulePath, "auth.middlewares.ts")],
                   [from |-> SwaggerConfigPath("ts"),
                    to |-> Append(AuthModulePath, "auth.schemas.ts")],
                   [from |-> SwaggerConfigPath("ts"), to |-> health]}
             ELSE {[from |-> routes, to |-> Append(AuthModulePath, "auth.middlewares.js")]})

\* what a manifest file holds: nothing (no file: "missing"), text that is
\* not JSON ("invalid"), the JSON text null, or an object
ManifestFile(m) == [kind |-> "object", val |-> m]

CliBaseFiles ==
    {[kind |-> "missing"],
     ManifestFile(ManifestObj([name |-> "charcole-base", version |-> "1.0.0", type |-> "module"],
                            <<[k \in {"a", "b"} |-> "1"]>>, <<>>,
                            <<[k \in {"dev"} |-> "run-1"]>>)),
     ManifestFile(ManifestObj([version |-> "1.0.0"], <<>>, <<[k \in {"tsx"} |-> "1"]>>, <<>>))}

SwaggerFragmentFiles ==
    {[kind |-> "missing"], [kind |-> "invalid"], [kind |-> "null"],
     ManifestFile(ManifestObj([name |-> "swagger-module", version |-> "0.0.1"],
                            <<[k \in {"a", "@charcoles/swagger"} |-> "2"]>>,
                            <<[k \in {"tsx"} |-> "2"]>>, <<>>))}

AuthFragmentFiles ==
    {[kind |-> "missing"], [kind |-> "invalid"],
     ManifestFile(ManifestObj([name |-> "auth-module", version |-> "0.0.1"],
                            <<[k \in {"a", "jsonwebtoken"} |-> "3"]>>, <<>>,
                            <<[k \in {"dev"} |-> "run-3"]>>))}

Line(id, holds) == [id |-> id, holds |-> holds]

\* The app file of a template: with the two static imports and the call
\* (the JavaScript template), or without them (the TypeScript template, and
\* the JavaScript template that loads swagger with a dynamic import).
AppTemplates(language) ==
    {<<Line("import express from \"express\";", {}),
       Line(SwaggerConfigImport(language), {SwaggerConfigImport(language)}),
       Line(SetupSwaggerImport, {SetupSwaggerImport}),
       Line("export const app = express();", {}),
       Line("app.use(requestLogger);", {}),
       Line(SetupSwaggerCall, {SetupSwaggerCall}),
       Line("app.use(errorHandler);", {})>>,
     <<Line("import express from \"express\";", {}),
       Line("export const app = express();", {}),
       Line("    swaggerSetup = setupSwagger(app, swaggerConfig);", {}),
       Line("app.use(errorHandler);", {})>>}

\* the step at which the file system or the package manager fails, if any
FailPoints == {"none", "copy", "authCopy", "install"}

\* ---- the inputs of a request to a generated application

ZodIssues ==
    <<[path |-> <<"body", "name">>, message |-> "Name is required", code |-> "too_small"],
      [path |-> <<"query", "page">>, message |-> "Expected number", code |-> "invalid_type"]>>

ZodErrorValue == [ErrorValue("ZodError", "Validation failed") EXCEPT !.errors = ZodIssues]

\* what schema.parseAsync({ body, query, params }) does
ParseOutcomes ==
    {[kind |-> "ok"],
     [kind |-> "throw", err |-> ZodErrorValue],
     [kind |-> "throw", err |-> ErrorValue("TypeError", "schema.parseAsync is not a function")]}

\* what a route handler wrapped in asyncHandler throws or rejects with
HandlerErrors ==
    {ErrorValue("TypeError", "Cannot read properties of undefined (reading 'id')"),
     ErrorValue("Error", "connect ECONNREFUSED db:5432 user=admin"),
     ErrorValue("Error", ""),
     ErrorValue("string", "boom"),
     ZodErrorValue,
     AppErrorValue("NotFoundError", "User not found", 404, TRUE, "NOT_FOUND",
                   [id |-> "42"], ""),
     AppErrorValue("AppError", "replica db-1 unreachable", 503, FALSE, "DB_DOWN",
                   [host |-> "db-1"], "ETIMEDOUT")}



\* ---- the inputs of the requests to the auth module

MaxRequests == 2

\* a request: its route, the outcome of the schema's parse of its body
\* (valid), the parsed email and password, and its Authorization header
AuthRequest(kind, valid, email, password, scheme, token) ==
    [kind |-> kind, valid |-> valid, email |-> email, name |-> "Ann", password |-> password,
     header |-> [scheme |-> scheme, token |-> token]]

AuthRequests ==
    {AuthRequest("register", TRUE, "a@x.io", "secret-1", "none", ""),
     AuthRequest("register", TRUE, "b@x.io", "secret-2", "none", ""),
     AuthRequest("register", FALSE, "", "", "none", ""),
     AuthRequest("login", TRUE, "a@x.io", "secret-1", "none", ""),
     AuthRequest("login", TRUE, "a@x.io", "wrong", "none", ""),
     AuthRequest("login", FALSE, "", "", "none", ""),
     AuthRequest("me", TRUE, "", "", "none", ""),
     AuthRequest("me", TRUE, "", "", "Basic", "valid")}
    \cup {AuthRequest("me", TRUE, "", "", "Bearer", t) : t \in {"valid", "expired", "forged", ""}}

-----------------------------------------------------------------------------
(* State machines.  Each specification runs one component; the others rest. *)

NoCompletion == [kind |-> "none"]

CvIdle == [pc |-> "idle", schema |-> Undefined, name |-> "", raw |-> NoCompletion,
           result |-> NoCompletion]

RsIdle == [pc |-> "idle", input |-> <<>>, idx |-> 0, components |-> EmptyObj, trace |-> <<>>]

SwIdle == [pc |-> "idle", options |-> EmptyObj, app0 |-> <<>>, app |-> <<>>, log |-> <<>>,
           doc |-> EmptyObj]

CrIdle == [heap |-> <<>>, returned |-> <<>>]

MgIdle == [pc |-> "idle", in |-> <<>>, objs |-> <<>>, first |-> EmptyObj, second |-> EmptyObj]

ClIdle == [pc |-> "idle", tree |-> EmptyTree, app |-> <<>>, mergedPkg |-> EmptyObj,
           pkgFile |-> <<>>, log |-> <<>>, exit |-> -1]

ApIdle == [pc |-> "idle", responses |-> <<>>, handlerInvoked |-> FALSE, running |-> TRUE,
           log |-> <<>>]

AuIdle == [pc |-> "idle", users |-> <<>>, reqs |-> <<>>]

\* ---- convertZodToOpenAPI(zodSchema, name), called on its own
InitConvert ==
    /\ cv \in [pc : {"call"}, schema : CvSchemas, name : Names, raw : {NoCompletion},
               result : {NoCompletion}]
    /\ rs = RsIdle
    /\ sw = SwIdle
    /\ cr = CrIdle
    /\ mg = MgIdle
    /\ cl = ClIdle
    /\ ap = ApIdle
    /\ au = AuIdle

\* raw: what the converter did, had it been called
CvConvert ==
    /\ cv.pc = "call"
    /\ cv' = [cv EXCEPT !.pc = "done",
                        !.raw = IF Truthy(cv.schema) THEN ZodToJsonSchema(cv.schema, cv.name)
                                ELSE NoCompletion,
                        !.result = ConvertZodToOpenAPI(cv.schema, cv.name)]
    /\ UNCHANGED <<rs, sw, cr, mg, cl, ap, au>>

\* ---- registerSchemas(schemas)
InitRegister ==
    /\ rs \in [pc : {"loop"}, input : EntryLists, idx : {1}, components : {EmptyObj},
               trace : {<<>>}]
    /\ cv = CvIdle
    /\ sw = SwIdle
    /\ cr = CrIdle
    /\ mg = MgIdle
    /\ cl = ClIdle
    /\ ap = ApIdle
    /\ au = AuIdle

\* one iteration of for (const [name, schema] of Object.entries(schemas))
RsIterate ==
    /\ rs.pc = "loop"
    /\ rs.idx <= Len(rs.input)
    /\ LET e == rs.input[rs.idx]
           r == RegisterEntry(rs.components, e.name, e.schema)
       IN rs' = [rs EXCEPT !.components = r.components,
                           !.trace = Append(@, [name |-> e.name, skipped |-> r.skipped,
                                                actual |-> r.actual,
                                                converted |-> r.converted]),
                           !.pc = IF r.kind = "throw" THEN "thrown" ELSE "loop",
                           !.idx = @ + 1]
    /\ UNCHANGED <<cv, sw, cr, mg, cl, ap, au>>

\* return components
RsReturn ==
    /\ rs.pc = "loop"
    /\ rs.idx > Len(rs.input)
    /\ rs' = [rs EXCEPT !.pc = "returned"]
    /\ UNCHANGED <<cv, sw, cr, mg, cl, ap, au>>

\* ---- setupSwagger(app, options)
InitSwagger ==
    /\ \E path \in Optional({"/docs"}), schemas \in Optional(SwEntryLists),
          include \in Optional(BOOLEAN), custom \in Optional(CustomResponseMaps),
          app \in PriorApps :
          sw = [pc |-> "call", options |-> OptionsObj(path, schemas, include, custom),
                app0 |-> app, app |-> app, log |-> <<>>, doc |-> EmptyObj]
    /\ cv = CvIdle
    /\ rs = RsIdle
    /\ cr = CrIdle
    /\ mg = MgIdle
    /\ cl = ClIdle
    /\ ap = ApIdle
    /\ au = AuIdle

\* setupSwagger up to its call of registerSchemas(config.schemas)
SwCallRegister ==
    /\ sw.pc = "call"
    /\ HasSchemas(Config(sw.options))
    /\ sw' = [sw EXCEPT !.pc = "registering"]
    /\ rs' = [pc |-> "loop", input |-> Config(sw.options)["schemas"], idx |-> 1,
              components |-> EmptyObj, trace |-> <<>>]
    /\ UNCHANGED <<cv, cr, mg, cl, ap, au>>

\* setupSwagger from the completion of registerSchemas to its return
SwFinish ==
    /\ sw.pc = "registering"
    /\ rs.pc \in {"returned", "thrown"}
    /\ LET r == SetupSwagger(sw.app, sw.options, Registered(rs))
       IN sw' = [sw EXCEPT !.pc = IF r.kind = "throw" THEN "thrown" ELSE "returned",
                           !.app = r.app,
                           !.log = r.log,
                           !.doc = r.doc]
    /\ UNCHANGED <<cv, rs, cr, mg, cl, ap, au>>

\* setupSwagger as a whole, when there is no schema to register
SwSetup ==
    /\ sw.pc = "call"
    /\ ~HasSchemas(Config(sw.options))
    /\ LET r == SetupSwagger(sw.app, sw.options, NotRegistered)
       IN sw' = [sw EXCEPT !.pc = IF r.kind = "throw" THEN "thrown" ELSE "returned",
                           !.app = r.app,
                           !.log = r.log,
                           !.doc = r.doc]
    /\ UNCHANGED <<cv, rs, cr, mg, cl, ap, au>>

\* ---- getCommonResponses(), called repeatedly; callers change what they got
\* heap: the objects returned so far, as they are now;  returned: for each
\* call, the object as it was when the call returned
InitResponses ==
    /\ cr = [heap |-> <<>>, returned |-> <<>>]
    /\ cv = CvIdle
    /\ rs = RsIdle
    /\ sw = SwIdle
    /\ mg = MgIdle
    /\ cl = ClIdle
    /\ ap = ApIdle
    /\ au = AuIdle

CrCall ==
    /\ Len(cr.returned) < MaxCalls
    /\ LET r == CallGetCommonResponses(cr.heap)
       IN cr' = [heap |-> r.heap,
                 returned |-> Append(cr.returned,
                    [value |-> r.heap[r.ref],
                     afterMutation |-> \E j \in 1..Len(cr.heap) :
                                            cr.heap[j] # GetCommonResponses])]
    /\ UNCHANGED <<cv, rs, sw, mg, cl, ap, au>>

\* delete responses.<name>
CrCallerDeletes ==
    /\ \E ref \in 1..Len(cr.heap), n \in MutableNames :
          /\ HasKey(cr.heap[ref], n)
          /\ cr' = [cr EXCEPT !.heap[ref] = DeleteKey(@, n)]
    /\ UNCHANGED <<cv, rs, sw, mg, cl, ap, au>>

\* responses.<name> = <a response of the caller's>
CrCallerAssigns ==
    /\ \E ref \in 1..Len(cr.heap), n \in MutableNames :
          /\ cr.heap[ref] # SetKey(cr.heap[ref], n, CustomResponse(n))
          /\ cr' = [cr EXCEPT !.heap[ref] = SetKey(@, n, CustomResponse(n))]
    /\ UNCHANGED <<cv, rs, sw, mg, cl, ap, au>>

\* ---- mergedPkg = mergePackageJson(mergedPkg, fragment), once per fragment
\* in: the base and the two fragments as given;  objs: the same three objects
\* as they are now
InitMerge ==
    /\ \E b \in BaseManifests, f1 \in FragmentManifests("feature-one", "2"),
          f2 \in FragmentManifests("feature-two", "3") :
          mg = [pc |-> "start", in |-> <<b, f1, f2>>, objs |-> <<b, f1, f2>>,
                first |-> EmptyObj, second |-> EmptyObj]
    /\ cv = CvIdle
    /\ rs = RsIdle
    /\ sw = SwIdle
    /\ cr = CrIdle
    /\ cl = ClIdle
    /\ ap = ApIdle
    /\ au = AuIdle

MgMergeFirst ==
    /\ mg.pc = "start"
    /\ LET r == MergePackageJson(mg.objs[1], mg.objs[2])
       IN mg' = [mg EXCEPT !.pc = "one",
                           !.first = r.merged,
                           !.objs = <<r.base, r.fragment, mg.objs[3]>>]
    /\ UNCHANGED <<cv, rs, sw, cr, cl, ap, au>>

MgMergeSecond ==
    /\ mg.pc = "one"
    /\ LET r == MergePackageJson(mg.first, mg.objs[3])
       IN mg' = [mg EXCEPT !.pc = "two",
                           !.second = r.merged,
                           !.first = r.base,
                           !.objs = <<mg.objs[1], mg.objs[2], r.fragment>>]
    /\ UNCHANGED <<cv, rs, sw, cr, cl, ap, au>>

\* ---- main of bin/index.js: one run of the CLI
\* in: the answers, the template and the faults of the run;  tree: the
\* target directory;  app: the lines of the target's app file;  pkgFile: the
\* text of the target's package.json, once written;  everWritten: every
\* file the run has put into the target;  atThrow: the target as it was
\* when an exception left the try block;  exit: the exit code, -1 while the
\* process runs
InitCli ==
    /\ \E answers \in {<<"demo", FALSE>>, <<"demo", TRUE>>, <<"", FALSE>>},
          language \in {"ts", "js"}, auth \in BOOLEAN, swagger \in BOOLEAN,
          extras \in TemplateExtras, base \in CliBaseFiles,
          swaggerFragment \in SwaggerFragmentFiles, authFragment \in AuthFragmentFiles,
          failAt \in FailPoints :
          \E appLines \in AppTemplates(language) :
             cl = [pc |-> "start",
                   in |-> [projectName |-> answers[1], targetExists |-> answers[2],
                           language |-> language, auth |-> auth, swagger |-> swagger,
                           template |-> TemplateTree(language, extras, base,
                                                     swaggerFragment, authFragment),
                           base |-> base, swaggerFragment |-> swaggerFragment,
                           authFragment |-> authFragment, app |-> appLines,
                           failAt |-> failAt],
                   tree |-> EmptyTree, app |-> <<>>, mergedPkg |-> EmptyObj,
                   pkgFile |-> <<>>, everWritten |-> {}, atThrow |-> EmptyTree,
                   log |-> <<>>, err |-> "", exit |-> -1]
    /\ cv = CvIdle
    /\ rs = RsIdle
    /\ sw = SwIdle
    /\ cr = CrIdle
    /\ mg = MgIdle
    /\ ap = ApIdle
    /\ au = AuIdle

\* lines 83-162: the answers, the two checks that end the process with
\* process.exit(1), and the creation of the target directory
CliStart ==
    /\ cl.pc = "start"
    /\ cl' = IF cl.in.projectName = ""
             THEN [cl EXCEPT !.pc = "exited", !.exit = 1,
                             !.log = Append(@, LogLine("error", "Project name is required"))]
             ELSE IF cl.in.targetExists
             THEN [cl EXCEPT !.pc = "exited", !.exit = 1,
                             !.log = Append(@, LogLine("error", "Folder already exists"))]
             ELSE Stepped(cl, "base", MkdirRecursive(cl.tree, <<>>))
    /\ UNCHANGED <<cv, rs, sw, cr, mg, ap, au>>

\* lines 164-170: basePackage.json
CliLoadBase ==
    /\ cl.pc = "base"
    /\ cl' = CASE cl.in.base.kind = "missing" ->
                     Thrown(cl, cl.tree, "basePackage.json not found")
               [] cl.in.base.kind = "invalid" ->
                     Thrown(cl, cl.tree, "Unexpected token in JSON")
               [] OTHER ->
                     [Stepped(cl, "copy", cl.tree) EXCEPT !.mergedPkg = cl.in.base.val]
    /\ UNCHANGED <<cv, rs, sw, cr, mg, ap, au>>

\* lines 172-223: the copy of the template and of its module directories
CliCopyTemplate ==
    /\ cl.pc = "copy"
    /\ cl' = IF cl.in.failAt = "copy"
             THEN Thrown(cl, cl.tree, "copy failed")
             ELSE LET tree == CopyTemplate(cl.in.template, cl.in.auth, cl.in.swagger, cl.tree)
                  IN [Stepped(cl, "swagger", tree) EXCEPT
                         !.app = IF AppFilePath(cl.in.language) \in tree.files
                                 THEN cl.in.app ELSE <<>>]
    /\ UNCHANGED <<cv, rs, sw, cr, mg, ap, au>>

\* lines 224-279: the swagger module, if selected
CliSwaggerModule ==
    /\ cl.pc = "swagger"
    /\ cl' = IF ~cl.in.swagger THEN Stepped(cl, "auth", cl.tree)
             ELSE LET tarball == CopyTarball(cl.in.template, cl.tree)
                      merge == MergeFragment(cl.mergedPkg, cl.in.swaggerFragment, "Swagger")
                  IN IF merge.kind = "throw"
                     THEN [Thrown(cl, tarball.tree, "fragment") EXCEPT
                              !.log = @ \o tarball.log]
                     ELSE [Stepped(cl, "auth", tarball.tree) EXCEPT
                              !.mergedPkg = merge.pkg,
                              !.log = @ \o tarball.log \o merge.log]
    /\ UNCHANGED <<cv, rs, sw, cr, mg, ap, au>>

\* lines 281-348: the auth module, if selected; the removal of a copied
\* auth directory otherwise
CliAuthModule ==
    /\ cl.pc = "auth"
    /\ cl' = AuthModule(cl)
    /\ UNCHANGED <<cv, rs, sw, cr, mg, ap, au>>

\* lines 350-403: without swagger, its lines leave the app file and its
\* config file and src/lib/swagger leave the target
CliStripSwagger ==
    /\ cl.pc = "strip"
    /\ cl' = IF cl.in.swagger THEN Stepped(cl, "write", cl.tree)
             ELSE [Stepped(cl, "write", RemoveSwaggerFiles(cl.tree, cl.in.language)) EXCEPT
                      !.app = IF AppFilePath(cl.in.language) \in cl.tree.files
                              THEN StripSwaggerLines(cl.app, cl.in.language)
                              ELSE cl.app]
    /\ UNCHANGED <<cv, rs, sw, cr, mg, ap, au>>

\* lines 405-419: the name and the target's package.json
CliWriteManifest ==
    /\ cl.pc = "write"
    /\ LET named == AssignName(cl.mergedPkg, cl.in.projectName)
       IN cl' = [Stepped(cl, "env", PutFile(cl.tree, <<"package.json">>)) EXCEPT
                    !.mergedPkg = named,
                    !.pkgFile = <<JsonStringify(named)>>]
    /\ UNCHANGED <<cv, rs, sw, cr, mg, ap, au>>

\* lines 421-469: .env from .env.example, and git init where git is there;
\* neither try block lets an exception out
CliEnvAndGit ==
    /\ cl.pc = "env"
    /\ \E git \in BOOLEAN :
          LET withEnv == IF /\ <<".env.example">> \in cl.tree.files
                            /\ <<".env">> \notin cl.tree.files
                         THEN PutFile(cl.tree, <<".env">>) ELSE cl.tree
              withGit == IF ~git THEN withEnv
                         ELSE LET repo == MkdirRecursive(withEnv, <<".git">>)
                              IN IF /\ <<".gitignore">> \notin repo.files
                                    /\ <<".gitignore">> \in cl.in.template.files
                                 THEN PutFile(repo, <<".gitignore">>) ELSE repo
          IN cl' = Stepped(cl, "install", withGit)
    /\ UNCHANGED <<cv, rs, sw, cr, mg, ap, au>>

\* lines 471-488: the install, the removal of the tarball, and the end of
\* main; a failed install may have written part of node_modules
CliInstall ==
    /\ cl.pc = "install"
    /\ \/ /\ cl.in.failAt = "install"
          /\ \E partial \in BOOLEAN :
                cl' = Thrown(cl, IF partial THEN MkdirRecursive(cl.tree, <<"node_modules">>)
                                 ELSE cl.tree,
                             "Command failed: install")
       \/ /\ cl.in.failAt # "install"
          /\ LET installed == MkdirRecursive(cl.tree, <<"node_modules">>)
                 cleaned == IF cl.in.swagger /\ <<TarballName>> \in installed.files
                            THEN Unlink(installed, <<TarballName>>) ELSE installed
             IN cl' = [Stepped(cl, "exited", cleaned) EXCEPT !.exit = 0]
    /\ UNCHANGED <<cv, rs, sw, cr, mg, ap, au>>

\* lines 489-493: the catch of main
CliCatch ==
    /\ cl.pc = "caught"
    /\ LET c == Catch(cl.err, cl.tree)
       IN cl' = [cl EXCEPT !.pc = "exited", !.exit = c.code, !.tree = c.tree,
                           !.log = @ \o c.log]
    /\ UNCHANGED <<cv, rs, sw, cr, mg, ap, au>>

\* ---- one request to router.post("/items", validateRequest(schema), handler)
\* of a generated application, with errorHandler as the last middleware
\* responses: what res.status(..).json(..) has sent;  pending: the error
\* passed to next or left in a rejected promise;  nextErrors: the errors
\* next was called with;  running: the server process has not exited;
\* express: the major version of express the project runs on
InitApp ==
    /\ ap \in [pc : {"validate"},
               in : [template : {"js", "ts"},
                     nodeEnv : {"development", "production", "test"},
                     express : {"4", "5"},
                     parsed : ParseOutcomes,
                     handler : {[kind |-> "ok", async |-> a, err |-> NoError] :
                                    a \in BOOLEAN}
                                 \cup {[kind |-> "throw", async |-> a, err |-> e] :
                                          a \in BOOLEAN, e \in HandlerErrors}],
               responses : {<<>>}, handlerInvoked : {FALSE}, running : {TRUE},
               pending : {NoError}, nextErrors : {<<>>}, log : {<<>>}]
    /\ cv = CvIdle
    /\ rs = RsIdle
    /\ sw = SwIdle
    /\ cr = CrIdle
    /\ mg = MgIdle
    /\ cl = ClIdle
    /\ au = AuIdle

\* the middleware returned by validateRequest(schema)
ApValidate ==
    /\ ap.pc = "validate"
    /\ LET r == ValidateRequest(ap.in.template, ap.in.parsed)
       IN ap' = CASE r.kind = "next" -> [ap EXCEPT !.pc = "handler"]
                  [] r.kind = "send" ->
                        [ap EXCEPT !.pc = "done", !.responses = Append(@, r.response)]
                  [] r.kind = "nextError" ->
                        [ap EXCEPT !.pc = "error", !.pending = r.err,
                                   !.nextErrors = Append(@, r.err)]
                  [] OTHER ->
                        IF RouterOnRejection(ap.in.express) = "nextError"
                        THEN [ap EXCEPT !.pc = "error", !.pending = r.err,
                                        !.nextErrors = Append(@, r.err)]
                        ELSE [ap EXCEPT !.pc = "rejected", !.pending = r.err]
    /\ UNCHANGED <<cv, rs, sw, cr, mg, cl, au>>

\* the route handler inside asyncHandler: it answers, or what it throws or
\* rejects with goes to next
ApHandler ==
    /\ ap.pc = "handler"
    /\ LET r == RouterHandle(ap.in.express, AsyncHandler(ap.in.template, ap.in.handler))
       IN ap' = CASE r.kind = "return" ->
                        [ap EXCEPT !.pc = "done", !.handlerInvoked = TRUE,
                                   !.responses = Append(@, [status |-> 201,
                                                            body |-> [success |-> TRUE]])]
                  [] r.kind = "next" ->
                        [ap EXCEPT !.pc = "error", !.handlerInvoked = TRUE,
                                   !.pending = r.err, !.nextErrors = Append(@, r.err)]
                  [] OTHER ->
                        [ap EXCEPT !.pc = "rejected", !.handlerInvoked = TRUE,
                                   !.pending = r.err]
    /\ UNCHANGED <<cv, rs, sw, cr, mg, cl, au>>

\* app.use(errorHandler)
ApErrorHandler ==
    /\ ap.pc = "error"
    /\ LET r == ErrorHandler(ap.pending, ap.in.template, Env(ap.in.template, ap.in.nodeEnv))
       IN ap' = [ap EXCEPT !.pc = "done", !.responses = Append(@, r.response),
                           !.log = @ \o r.log]
    /\ UNCHANGED <<cv, rs, sw, cr, mg, cl, au>>

\* process.on("unhandledRejection", ...): logger.error, process.exit(1)
ApUnhandledRejection ==
    /\ ap.pc = "rejected"
    /\ ap' = [ap EXCEPT !.pc = "exited", !.running = FALSE,
                        !.log = Append(@, LogLine("error", "Unhandled Rejection at:"))]
    /\ UNCHANGED <<cv, rs, sw, cr, mg, cl, au>>

\* ---- the auth module serving MaxRequests requests at once
\* users: the array of userRepo;  reqs: the requests, each with its input,
\* its position, what findByEmail and bcrypt gave it (existing, hash), the
\* response sent for it, whether next was called and req.user
InitAuth ==
    /\ \E template \in {"js", "ts"}, secret \in BOOLEAN,
          ins \in [1..MaxRequests -> AuthRequests] :
          au = [pc |-> "serving", template |-> template, secret |-> secret, users |-> <<>>,
                reqs |-> [i \in 1..MaxRequests |->
                            [in |-> ins[i], pc |-> "start", existing |-> <<>>, hash |-> "",
                             response |-> <<>>, nextCalled |-> FALSE, user |-> <<>>]]]
    /\ cv = CvIdle
    /\ rs = RsIdle
    /\ sw = SwIdle
    /\ cr = CrIdle
    /\ mg = MgIdle
    /\ cl = ClIdle
    /\ ap = ApIdle

\* AuthController.register up to the first await of AuthService.register:
\* registerSchema.parse(data), userRepo.findByEmail(input.email)
AuRegisterFind ==
    \E i \in 1..MaxRequests :
        LET req == au.reqs[i]
        IN /\ au.pc = "serving" /\ req.in.kind = "register" /\ req.pc = "start"
           /\ au' = [au EXCEPT !.reqs[i] =
                        IF ~req.in.valid
                        THEN Responded(req, 400, [message |-> ZodErrorValue.message],
                                       "AuthController.register")
                        ELSE [req EXCEPT !.pc = "found",
                                         !.existing = FindByEmail(au.users, req.in.email)]]
           /\ UNCHANGED <<cv, rs, sw, cr, mg, cl, ap>>

\* from the result of findByEmail to the await of hashPassword
AuRegisterHash ==
    \E i \in 1..MaxRequests :
        LET req == au.reqs[i]
        IN /\ au.pc = "serving" /\ req.in.kind = "register" /\ req.pc = "found"
           /\ au' = [au EXCEPT !.reqs[i] =
                        IF req.existing # <<>>
                        THEN Responded(req, 400, [message |-> "Email already in use"],
                                       "AuthController.register")
                        ELSE [req EXCEPT !.pc = "hashed",
                                         !.hash = BcryptHash(req.in.password)]]
           /\ UNCHANGED <<cv, rs, sw, cr, mg, cl, ap>>

\* userRepo.create and the controller's res.status(201).json({message, user})
AuRegisterCreate ==
    \E i \in 1..MaxRequests :
        LET req == au.reqs[i]
            user == CreateUser(au.template, au.users,
                               [email |-> req.in.email, name |-> req.in.name,
                                passwordHash |-> req.hash])
        IN /\ au.pc = "serving" /\ req.in.kind = "register" /\ req.pc = "hashed"
           /\ au' = [au EXCEPT !.users = Append(@, user),
                               !.reqs[i] = Responded(req, 201,
                                              [message |-> "User registered successfully",
                                               user |-> user],
                                              "AuthController.register")]
           /\ UNCHANGED <<cv, rs, sw, cr, mg, cl, ap>>

\* AuthController.login up to the first await of AuthService.login:
\* loginSchema.parse(data), userRepo.findByEmail(input.email)
AuLoginFind ==
    \E i \in 1..MaxRequests :
        LET req == au.reqs[i]
        IN /\ au.pc = "serving" /\ req.in.kind = "login" /\ req.pc = "start"
           /\ au' = [au EXCEPT !.reqs[i] =
                        IF ~req.in.valid
                        THEN Responded(req, 401, [message |-> ZodErrorValue.message],
                                       "AuthController.login")
                        ELSE [req EXCEPT !.pc = "found",
                                         !.existing = FindByEmail(au.users, req.in.email)]]
           /\ UNCHANGED <<cv, rs, sw, cr, mg, cl, ap>>

\* from the result of findByEmail to the await of comparePassword
AuLoginCompare ==
    \E i \in 1..MaxRequests :
        LET req == au.reqs[i]
        IN /\ au.pc = "serving" /\ req.in.kind = "login" /\ req.pc = "found"
           /\ au' = [au EXCEPT !.reqs[i] =
                        IF req.existing = <<>> \/ req.existing[1].passwordHash = ""
                        THEN Responded(req, 401, [message |-> "Invalid credentials"],
                                       "AuthController.login")
                        ELSE [req EXCEPT !.pc = "compared",
                                         !.hash = BcryptHash(req.in.password)]]
           /\ UNCHANGED <<cv, rs, sw, cr, mg, cl, ap>>

\* from the result of comparePassword to the controller's res.json(result)
AuLoginSign ==
    \E i \in 1..MaxRequests :
        LET req == au.reqs[i]
            user == req.existing[1]
            signed == SignToken(au.template,
                                [sub |-> user.id, email |-> user.email, role |-> user.role],
                                au.secret)
        IN /\ au.pc = "serving" /\ req.in.kind = "login" /\ req.pc = "compared"
           /\ au' = [au EXCEPT !.reqs[i] =
                        IF req.hash # user.passwordHash
                        THEN Responded(req, 401, [message |-> "Invalid credentials"],
                                       "AuthController.login")
                        ELSE IF signed.kind = "throw"
                        THEN Responded(req, 401, [message |-> signed.message],
                                       "AuthController.login")
                        ELSE Responded(req, 200, [user |-> user, token |-> signed.token],
                                       "AuthController.login")]
           /\ UNCHANGED <<cv, rs, sw, cr, mg, cl, ap>>

\* router.get("/me", requireAuth, (req, res) => res.json({message, user: req.user}))
AuMe ==
    \E i \in 1..MaxRequests :
        LET req == au.reqs[i]
            r == RequireAuth(req.in.header, au.secret)
        IN /\ au.pc = "serving" /\ req.in.kind = "me" /\ req.pc = "start"
           /\ au' = [au EXCEPT !.reqs[i] =
                        IF r.kind = "next"
                        THEN [Responded(req, 200, [message |-> "You are authenticated",
                                                   user |-> r.user], "GET /me")
                                 EXCEPT !.nextCalled = TRUE, !.user = <<r.user>>]
                        ELSE [req EXCEPT !.pc = "done", !.response = <<r.response>>]]
           /\ UNCHANGED <<cv, rs, sw, cr, mg, cl, ap>>

SpecConvert == InitConvert /\ [][CvConvert]_vars

RsNext == RsIterate \/ RsReturn
SpecRegister == InitRegister /\ [][RsNext]_vars

SwNext == SwCallRegister \/ RsIterate \/ RsReturn \/ SwFinish \/ SwSetup
SpecSwagger == InitSwagger /\ [][SwNext]_vars

CrNext == CrCall \/ CrCallerDeletes \/ CrCallerAssigns
SpecResponses == InitResponses /\ [][CrNext]_vars

MgNext == MgMergeFirst \/ MgMergeSecond
SpecMerge == InitMerge /\ [][MgNext]_vars

CliNext ==
    \/ CliStart \/ CliLoadBase \/ CliCopyTemplate \/ CliSwaggerModule \/ CliAuthModule
    \/ CliStripSwagger \/ CliWriteManifest \/ CliEnvAndGit \/ CliInstall \/ CliCatch
SpecCli == InitCli /\ [][CliNext]_vars

ApNext == ApValidate \/ ApHandler \/ ApErrorHandler \/ ApUnhandledRejection
SpecApp == InitApp /\ [][ApNext]_vars

AuNext ==
    \/ AuRegisterFind \/ AuRegisterHash \/ AuRegisterCreate
    \/ AuLoginFind \/ AuLoginCompare \/ AuLoginSign \/ AuMe
SpecAuth == InitAuth /\ [][AuNext]_vars

-----
(* Properties of convertZodToOpenAPI and registerSchemas *)

InputNames == {rs.input[i].name : i \in 1..Len(rs.input)}

\* the schema an entry's conversion is specified to start from
BodyOrSelf(schema) ==
    IF schema.shape = "fields" /\ HasKey(schema.fields, "body")
    THEN schema.fields["body"] ELSE schema

\* C1: whenever convertZodToOpenAPI returns an object, whatever document the
\* converter produced, the object has no `$schema` key and no top-level
\* `definitions` key.
C1_NoSchemaNoDefinitions ==
    (cv.pc = "done" /\ cv.result.kind = "object") =>
        /\ ~HasKey(cv.result.val, "$schema")
        /\ ~HasKey(cv.result.val, "definitions")

\* C2: every key of the output of registerSchemas is a key of the input, the
\* output has at most as many entries as the input, no output value is null
\* or undefined, and a falsy entry has no key in the output.
C2_OutputWithinInput ==
    /\ DOMAIN rs.components \subseteq InputNames
    /\ Cardinality(DOMAIN rs.components) <= Len(rs.input)
    /\ \A n \in DOMAIN rs.components : rs.components[n] # Null /\ rs.components[n] # Undefined
    /\ \A i \in 1..Len(rs.input) :
          ~Truthy(rs.input[i].schema) => rs.input[i].name \notin DOMAIN rs.components

C2_Witness ==
    /\ rs.pc = "returned"
    /\ Len(rs.input) = 2
    /\ ~Truthy(rs.input[1].schema)
    /\ DOMAIN rs.components = {rs.input[2].name}

\* C3 as stated: an entry whose body extraction or whose conversion throws
\* has no key in the result of registerSchemas.
C3_ThrowingEntryAbsent ==
    rs.pc = "returned" =>
        \A i \in 1..Len(rs.input) :
            LET s == rs.input[i].schema
            IN (Truthy(s) /\ (s.shape = "throws"
                              \/ ZodToJsonSchema(rs.trace[i].actual, rs.input[i].name).kind = "throw"))
                  => rs.input[i].name \notin DOMAIN rs.components

\* C3 amended: an entry whose conversion throws has no key in the components
\* (and is warned about when the thrown value is an Error); an entry whose
\* body extraction throws is converted from its own schema, and has a key
\* exactly when that conversion returns an object.
C3_ConversionFailureAbsent ==
    \A i \in 1..Len(rs.trace) :
        LET s == rs.input[i].schema
            n == rs.input[i].name
        IN Truthy(s) =>
            /\ ZodToJsonSchema(BodyOrSelf(s), n).kind = "throw" =>
                  /\ n \notin DOMAIN rs.components
                  /\ ZodToJsonSchema(BodyOrSelf(s), n).err = "Error" => rs.trace[i].converted.warned
            /\ s.shape = "throws" =>
                  /\ rs.trace[i].actual = s
                  /\ (n \in DOMAIN rs.components) <=> (ZodToJsonSchema(s, n).kind = "return")

C3_Witness ==
    /\ rs.pc = "returned"
    /\ \E i, j \in 1..Len(rs.input) :
          /\ Truthy(rs.input[i].schema) /\ Truthy(rs.input[j].schema)
          /\ ZodToJsonSchema(BodyOrSelf(rs.input[i].schema), rs.input[i].name).kind = "throw"
          /\ rs.input[i].name \notin DOMAIN rs.components
          /\ rs.input[j].schema.shape = "throws"
          /\ rs.input[j].name \in DOMAIN rs.components

\* C4: registerSchemas returns normally for every input map, and the value it
\* produces for a name is the value produced when that entry is registered
\* alone, whatever the other entries and their order.
C4_NeverAbortsSameAsAlone ==
    /\ rs.pc # "thrown"
    /\ rs.pc = "returned" =>
          \A i \in 1..Len(rs.input) :
              LET alone == RegisterEntry(EmptyObj, rs.input[i].name, rs.input[i].schema)
                  n == rs.input[i].name
              IN /\ alone.kind # "throw"
                 /\ (n \in DOMAIN rs.components) <=> (n \in DOMAIN alone.components)
                 /\ n \in DOMAIN rs.components => rs.components[n] = alone.components[n]

\* C5: the schema converted for an entry is the `body` field of its shape
\* when the shape has one, and the entry's schema itself otherwise (no such
\* field, or no inspectable shape); what is stored under the entry's name is
\* the conversion of that schema.
C5_BodyIsConversionTarget ==
    \A i \in 1..Len(rs.trace) :
        LET s == rs.input[i].schema
            n == rs.input[i].name
        IN Truthy(s) =>
            /\ rs.trace[i].actual = BodyOrSelf(s)
            /\ rs.trace[i].converted.kind = "object" =>
                  /\ n \in DOMAIN rs.components
                  /\ ZodToJsonSchema(BodyOrSelf(s), n).kind = "return"
                  /\ rs.components[n] = PostProcess(ZodToJsonSchema(BodyOrSelf(s), n).val)

C5_Witness ==
    /\ rs.pc = "returned"
    /\ \E i, j \in 1..Len(rs.input) :
          LET s == rs.input[i].schema
              t == rs.input[j].schema
          IN /\ Truthy(s) /\ s.shape = "fields" /\ HasKey(s.fields, "body")
             /\ s.conv = PlainDoc /\ s.fields["body"].conv = NamedRef
             /\ rs.input[i].name \in DOMAIN rs.components
             /\ Truthy(t) /\ t.shape = "fields" /\ ~HasKey(t.fields, "body")
             /\ rs.input[j].name \in DOMAIN rs.components

-----------------------------------------------------------------------------
(* Properties of setupSwagger and getCommonResponses *)

SwOption(k) == IF HasKey(sw.options, k) THEN sw.options[k] ELSE DefaultOptions[k]

SwResponses == sw.doc["components"].responses

\* registerSchemas was called by setupSwagger and threw
RegistrationFails == sw.pc # "call" /\ rs.pc = "thrown"

\* C6: with common responses included, a custom response named like a
\* common one replaces it, and every other name of the six common responses
\* and of customResponses is present in components.responses.
C6_CustomOverridesCommon ==
    (sw.pc = "returned" /\ SwOption("includeCommonResponses")) =>
        LET custom == SwOption("customResponses")
        IN /\ DOMAIN SwResponses =
                {"Success", "ValidationError", "Unauthorized", "Forbidden", "NotFound",
                 "InternalError"} \cup DOMAIN custom
           /\ \A n \in DOMAIN custom : SwResponses[n] = custom[n]
           /\ \A n \in (DOMAIN SwResponses) \ (DOMAIN custom) :
                 SwResponses[n] = GetCommonResponses[n]

C6_Witness ==
    /\ sw.pc = "returned"
    /\ SwOption("includeCommonResponses")
    /\ DOMAIN SwOption("customResponses") = {"Success", "Conflict"}
    /\ SwResponses["Success"] = CustomResponse("Success")
    /\ SwResponses["Success"] # GetCommonResponses["Success"]

\* C7: setupSwagger never propagates a failure of schema registration: when
\* registerSchemas throws, a warning is logged, components.schemas is empty,
\* the UI is mounted exactly once at the configured path (default /api-docs)
\* and the assembled document is returned.
C7_RegistrationFailureContained ==
    /\ sw.pc # "thrown"
    /\ (sw.pc = "returned" /\ RegistrationFails) =>
          /\ \E i \in 1..Len(sw.log) :
                sw.log[i] = LogLine("warn", "Failed to register some Zod schemas")
          /\ sw.doc["components"].schemas = EmptyObj
          /\ Len(sw.app) = Len(sw.app0) + 1
          /\ SubSeq(sw.app, 1, Len(sw.app0)) = sw.app0
          /\ sw.app[Len(sw.app)].path =
                (IF HasKey(sw.options, "path") THEN sw.options["path"] ELSE "/api-docs")
          /\ sw.app[Len(sw.app)].ui = sw.doc
          /\ sw.doc["openapi"] = "3.0.0"

C7_Witness ==
    /\ sw.pc = "returned"
    /\ RegistrationFails
    /\ ~HasKey(sw.options, "path")
    /\ sw.app0 # <<>>
    /\ sw.app[Len(sw.app)].path = "/api-docs"

SuccessFlag(response) ==
    response.content["application/json"].schema.properties.success.example

\* C8: every call of getCommonResponses returns an object with exactly the
\* six keys and the same content, whatever was called before and whatever a
\* caller did to an object returned earlier.
C8_CommonResponsesStable ==
    \A i \in 1..Len(cr.returned) :
        /\ DOMAIN cr.returned[i].value =
              {"Success", "ValidationError", "Unauthorized", "Forbidden", "NotFound",
               "InternalError"}
        /\ cr.returned[i].value = cr.returned[1].value
        /\ \A n \in DOMAIN cr.returned[i].value :
              SuccessFlag(cr.returned[i].value[n]) = (n = "Success")

C8_Witness ==
    \E i \in 2..Len(cr.returned) :
        /\ cr.returned[i].afterMutation
        /\ ~HasKey(cr.heap[1], "Success")
        /\ HasKey(cr.returned[i].value, "Success")

-----------------------------------------------------------------------------
(* Properties of mergePackageJson *)

SectionOf(manifest, s) == IF HasKey(manifest, s) THEN manifest[s] ELSE EmptyObj

\* section s of merged is the union of base's and fragment's, fragment winning
IsUnionFragmentWins(merged, base, fragment, s) ==
    /\ HasKey(merged, s) <=> (HasKey(base, s) \/ HasKey(fragment, s))
    /\ DOMAIN SectionOf(merged, s) =
          (DOMAIN SectionOf(base, s)) \cup (DOMAIN SectionOf(fragment, s))
    /\ \A k \in DOMAIN SectionOf(merged, s) :
          SectionOf(merged, s)[k] =
              IF k \in DOMAIN SectionOf(fragment, s)
              THEN SectionOf(fragment, s)[k] ELSE SectionOf(base, s)[k]

OtherFieldsOfBase(merged, base) ==
    /\ (DOMAIN merged) \ Sections = (DOMAIN base) \ Sections
    /\ \A k \in (DOMAIN merged) \ Sections : merged[k] = base[k]

\* C9: mergePackageJson(base, fragment) returns an object whose dependencies,
\* devDependencies and scripts are the key-wise unions of base and fragment
\* with the fragment's value on a collision, whose other top-level fields
\* are the base's (the fragment's name, version, ... are ignored), and it
\* modifies neither argument.
C9_MergeIsShallowUnion ==
    /\ mg.pc \in {"one", "two"} =>
          /\ \A s \in {"dependencies", "devDependencies", "scripts"} :
                IsUnionFragmentWins(mg.first, mg.in[1], mg.in[2], s)
          /\ OtherFieldsOfBase(mg.first, mg.in[1])
    /\ mg.pc = "two" =>
          /\ \A s \in {"dependencies", "devDependencies", "scripts"} :
                IsUnionFragmentWins(mg.second, mg.first, mg.in[3], s)
          /\ OtherFieldsOfBase(mg.second, mg.first)
    /\ mg.objs = mg.in

C9_Witness ==
    /\ mg.pc = "one"
    /\ DOMAIN SectionOf(mg.in[1], "dependencies") = {"a"}
    /\ DOMAIN SectionOf(mg.in[2], "dependencies") = {"a", "b"}
    /\ mg.first["dependencies"] = [k \in {"a", "b"} |-> "2"]
    /\ ~HasKey(mg.in[1], "scripts") /\ HasKey(mg.in[2], "scripts")
    /\ mg.first["name"] = "charcole-base"

\* the value of key k of section s in the last of the manifests that defines it
LastDefining(ms, s, k) ==
    LET i == CHOOSE i \in 1..Len(ms) :
                /\ k \in DOMAIN SectionOf(ms[i], s)
                /\ \A j \in (i + 1)..Len(ms) : k \notin DOMAIN SectionOf(ms[j], s)
    IN SectionOf(ms[i], s)[k]

SwappedMerge ==
    MergePackageJson(MergePackageJson(mg.in[1], mg.in[3]).merged, mg.in[2]).merged

\* C10: merge(merge(b, f1), f2) holds, in each merged section, every key of
\* b, f1 and f2 with the value of the last of them that defines it; a section
\* in which f1 and f2 share no key is the same in merge(merge(b, f2), f1), so
\* the two results are equal when f1 and f2 share no key at all.
C10_LastWinsAndCommutes ==
    mg.pc = "two" =>
        /\ \A s \in {"dependencies", "devDependencies", "scripts"} :
              /\ DOMAIN SectionOf(mg.second, s) =
                    UNION {DOMAIN SectionOf(mg.in[i], s) : i \in 1..3}
              /\ \A k \in DOMAIN SectionOf(mg.second, s) :
                    SectionOf(mg.second, s)[k] = LastDefining(mg.in, s, k)
              /\ (DOMAIN SectionOf(mg.in[2], s)) \cap (DOMAIN SectionOf(mg.in[3], s)) = {}
                    => SectionOf(mg.second, s) = SectionOf(SwappedMerge, s)
        /\ (\A s \in {"dependencies", "devDependencies", "scripts"} :
                (DOMAIN SectionOf(mg.in[2], s)) \cap (DOMAIN SectionOf(mg.in[3], s)) = {})
              => mg.second = SwappedMerge

C10_Witness ==
    /\ mg.pc = "two"
    /\ HasKey(mg.in[1], "dependencies") /\ mg.in[1]["dependencies"] = [k \in {"a", "b"} |-> "1"]
    /\ HasKey(mg.in[2], "dependencies") /\ mg.in[2]["dependencies"] = [k \in {"a"} |-> "2"]
    /\ HasKey(mg.in[3], "dependencies") /\ mg.in[3]["dependencies"] = [k \in {"b"} |-> "3"]
    /\ HasKey(mg.in[1], "devDependencies")
    /\ HasKey(mg.in[2], "devDependencies")
    /\ HasKey(mg.in[3], "devDependencies")
    /\ mg.second["devDependencies"]["tsx"] = "3"
    /\ mg.second["dependencies"] = ("a" :> "2" @@ "b" :> "3")

-----
(* Properties of a run of the CLI *)

Completed == cl.pc = "exited" /\ cl.exit = 0

\* the manifest read back from the target's package.json
WrittenManifest == JsonParse(cl.pkgFile[1])

\* C11: whatever the flags, the package.json written into the target has
\* the project name as its name: the name of the base manifest does not
\* survive, and no fragment's name does.
C11_NameIsProjectName ==
    cl.pkgFile # <<>> =>
        /\ HasKey(WrittenManifest, "name")
        /\ WrittenManifest["name"] = cl.in.projectName

C11_Witness ==
    /\ cl.pkgFile # <<>>
    /\ cl.in.auth /\ cl.in.swagger
    /\ cl.in.base.kind = "object" /\ HasKey(cl.in.base.val, "name")
    /\ cl.in.base.val["name"] = "charcole-base"
    /\ cl.in.swaggerFragment.kind = "object" /\ cl.in.authFragment.kind = "object"
    /\ WrittenManifest["dependencies"]["jsonwebtoken"] = "3"
    /\ WrittenManifest["name"] = "demo"

\* what main logs when it looks for a module and its manifest
FragmentMessages ==
    {"Swagger tarball not found", "Swagger module package.json not found",
     "Failed to parse Swagger module package.json", "Auth module not found",
     "auth module package.json not found", "Failed to parse auth module package.json"}

\* C12: with auth=false and swagger=false no fragment is read or merged:
\* the written manifest is the base manifest with the project name as its
\* name, so its three sections are the base's and hold no auth-only package,
\* and no line about a fragment is logged.
C12_NoFlagsNoFragments ==
    (cl.pkgFile # <<>> /\ ~cl.in.auth /\ ~cl.in.swagger) =>
        /\ WrittenManifest = SetKey(cl.in.base.val, "name", cl.in.projectName)
        /\ \A s \in Sections :
              /\ HasKey(WrittenManifest, s) <=> HasKey(cl.in.base.val, s)
              /\ HasKey(WrittenManifest, s) =>
                    /\ WrittenManifest[s] = cl.in.base.val[s]
                    /\ "jsonwebtoken" \notin DOMAIN WrittenManifest[s]
        /\ \A i \in 1..Len(cl.log) : cl.log[i].msg \notin FragmentMessages

C12_Witness ==
    /\ Completed
    /\ ~cl.in.auth /\ ~cl.in.swagger
    /\ cl.in.language = "ts" /\ cl.in.projectName = "demo"
    /\ cl.in.authFragment.kind = "object" /\ cl.in.swaggerFragment.kind = "object"
    /\ HasKey(WrittenManifest, "dependencies")
    /\ WrittenManifest["dependencies"] = [k \in {"a", "b"} |-> "1"]
    /\ WrittenManifest["name"] = "demo"

\* C13: after a completed run the target holds src/modules/auth iff auth
\* was selected, and nothing named package.json lies anywhere below it.
C13_AuthDirIffSelected ==
    Completed =>
        /\ (AuthModulePath \in cl.tree.dirs) <=> cl.in.auth
        /\ \A p \in cl.tree.dirs \cup cl.tree.files :
              (IsUnder(p, AuthModulePath) /\ p # AuthModulePath) =>
                  /\ cl.in.auth
                  /\ BaseName(p) # "package.json"

C13_Witness ==
    /\ Completed
    /\ cl.in.auth
    /\ Append(AuthModulePath, "package.json") \in cl.in.template.files
    /\ <<"src", "modules", "auth", "docs", "package.json">> \in cl.in.template.files
    /\ Append(AuthModulePath, "docs") \in cl.tree.dirs
    /\ \E f \in cl.tree.files : IsUnder(f, AuthModulePath)

\* C14: for both values of the swagger flag the target never holds
\* src/modules/swagger or anything below it; after a completed run every
\* file of the target is a template file from outside that module or a file
\* the run generates, so the module shows only in the written manifest,
\* where its fragment is merged when swagger is selected.
GeneratedFiles == {<<"package.json">>, <<".env">>, <<".gitignore">>}

SwaggerMarkers(language) ==
    {SwaggerConfigImport(language), SetupSwaggerImport, SetupSwaggerCall}

HoldsSwaggerMarker(line, language) == line.holds \cap SwaggerMarkers(language) # {}

\* C15: after a completed run without swagger, no line of the app file
\* holds the config import, the setupSwagger import or the call, the app
\* file is the template's lines that hold none of them, in the template's
\* order, and the swagger config file and src/lib/swagger are gone; with
\* swagger the app file is the template's, line for line.
C15_SwaggerLinesStripped ==
    Completed =>
        /\ AppFilePath(cl.in.language) \in cl.tree.files
        /\ cl.in.swagger => cl.app = cl.in.app
        /\ ~cl.in.swagger =>
              /\ \A i \in 1..Len(cl.app) : ~HoldsSwaggerMarker(cl.app[i], cl.in.language)
              /\ cl.app = SelectSeq(cl.in.app,
                                    LAMBDA line : ~HoldsSwaggerMarker(line, cl.in.language))
              /\ SwaggerConfigPath(cl.in.language) \notin cl.tree.files
              /\ \A p \in cl.tree.dirs \cup cl.tree.files : ~IsUnder(p, SwaggerLibPath)

C15_Witness ==
    /\ Completed
    /\ ~cl.in.swagger
    /\ Len(cl.in.app) = 7 /\ Len(cl.app) = 4
    /\ cl.app[3].id = "app.use(requestLogger);"
    /\ SwaggerLibPath \in cl.in.template.dirs
    /\ SwaggerConfigPath(cl.in.language) \in cl.everWritten

\* a selected module's manifest was read and could not be merged
MergeFailed ==
    \E i \in 1..Len(cl.log) :
        cl.log[i].msg \in {"Failed to parse Swagger module package.json",
                           "Failed to parse auth module package.json"}

\* the answers, the template and the faults that end a run early
FatalInput ==
    \/ cl.in.projectName = ""
    \/ cl.in.targetExists
    \/ cl.in.base.kind \in {"missing", "invalid"}
    \/ cl.in.failAt \in {"copy", "install"}
    \/ cl.in.failAt = "authCopy" /\ cl.in.auth

\* C16 as stated: the exit code is 1 exactly when the name is missing, the
\* folder exists, an exception reached the catch of main, or a manifest
\* merge failed, and 0 otherwise.
C16_ExitOneOnMergeFailure ==
    cl.pc = "exited" =>
        /\ cl.exit \in {0, 1}
        /\ cl.exit = 1 <=>
              \/ cl.in.projectName = ""
              \/ cl.in.targetExists
              \/ cl.err # ""
              \/ MergeFailed

\* C16: the process ends with exit code 0 when main runs to its end (the
\* manifest is written and the install has run) and with 1 when the name is
\* missing, the folder exists or an exception reached the catch of main;
\* which of the two depends on the answers, the base manifest and the
\* faults of the file system and the installer only, not on the fragments.
C16_ExitCodes ==
    cl.pc = "exited" =>
        /\ cl.exit \in {0, 1}
        /\ cl.exit = 1 <=> (cl.in.projectName = "" \/ cl.in.targetExists \/ cl.err # "")
        /\ cl.exit = 1 <=> FatalInput
        /\ cl.exit = 0 => (cl.pkgFile # <<>> /\ <<"node_modules">> \in cl.tree.dirs)

C16_Witness ==
    /\ cl.pc = "exited"
    /\ cl.exit = 0
    /\ MergeFailed
    /\ cl.in.swagger /\ cl.in.swaggerFragment.kind = "null"

\* the fragment of a module as far as it is merged: that of a selected
\* module whose manifest parsed to an object
MergedPart(selected, fragment) ==
    IF selected /\ fragment.kind = "object" THEN fragment.val ELSE EmptyObj

ExpectedManifest ==
    SetKey(MergedOf(MergedOf(cl.in.base.val, MergedPart(cl.in.swagger, cl.in.swaggerFragment)),
                    MergedPart(cl.in.auth, cl.in.authFragment)),
           "name", cl.in.projectName)

HasLogged(msg) == \E i \in 1..Len(cl.log) : cl.log[i] = LogLine("error", msg)

\* C17: a selected module's fragment that fails to parse is logged and
\* skipped: the run goes on, the written manifest is the merge of the base
\* with the fragments that parsed, and unless something else fails the run
\* ends with exit code 0.
C17_FragmentFailureSkipped ==
    /\ cl.pkgFile # <<>> =>
          /\ WrittenManifest = ExpectedManifest
          /\ (cl.in.swagger /\ cl.in.swaggerFragment.kind \in {"invalid", "null"})
                => HasLogged("Failed to parse Swagger module package.json")
          /\ (cl.in.auth /\ cl.in.authFragment.kind \in {"invalid", "null"})
                => HasLogged("Failed to parse auth module package.json")
    /\ (cl.pc = "exited" /\ ~FatalInput) => (cl.exit = 0 /\ cl.pkgFile # <<>>)

C17_Witness ==
    /\ Completed
    /\ cl.in.swagger /\ cl.in.swaggerFragment.kind = "invalid"
    /\ cl.in.auth /\ cl.in.authFragment.kind = "object"
    /\ HasLogged("Failed to parse Swagger module package.json")
    /\ HasKey(WrittenManifest, "dependencies")
    /\ WrittenManifest["dependencies"]["jsonwebtoken"] = "3"
    /\ "@charcoles/swagger" \notin DOMAIN WrittenManifest["dependencies"]

\* an exception left the try block of main after the target was created
FatalAfterCreate == cl.pc = "exited" /\ cl.err # ""

\* C18 as stated: after a fatal error the exit code is 1 and every file the
\* run has written into the target is still there.
C18_NothingEverDeleted ==
    FatalAfterCreate =>
        /\ cl.exit = 1
        /\ <<>> \in cl.tree.dirs
        /\ cl.everWritten \subseteq cl.tree.files

\* the files the swagger=false branch takes out of the target
SwaggerCleanupPaths ==
    {SwaggerConfigPath(cl.in.language)}
        \cup {f \in cl.in.template.files : IsUnder(f, SwaggerLibPath)}

\* C18: after a fatal error the exit code is 1 and the catch of main removes
\* nothing: the target directory is as it was when the exception was
\* thrown.  Of the files written before, only those the swagger=false
\* cleanup removed on purpose are missing.
C18_NoRollback ==
    FatalAfterCreate =>
        /\ cl.exit = 1
        /\ <<>> \in cl.tree.dirs
        /\ cl.tree = cl.atThrow
        /\ cl.everWritten \ cl.tree.files \subseteq SwaggerCleanupPaths
        /\ cl.in.swagger => cl.everWritten \subseteq cl.tree.files

C18_Witness ==
    /\ FatalAfterCreate
    /\ cl.in.failAt = "install"
    /\ ~cl.in.swagger
    /\ <<"package.json">> \in cl.tree.files
    /\ <<"node_modules">> \in cl.tree.dirs
    /\ SwaggerConfigPath(cl.in.language) \in cl.everWritten \ cl.tree.files

-----
(* Properties of the generated application *)

LastResponse == ap.responses[Len(ap.responses)]

\* C19: with NODE_ENV=production, the body sent for an error that is not
\* operational has exactly the keys success, message, code and timestamp,
\* with success false, the generic message and code INTERNAL_SERVER_ERROR,
\* in the JavaScript and in the TypeScript template.
C19_ProductionHidesProgrammerErrors ==
    (/\ ap.pc = "done"
     /\ ap.pending # NoError
     /\ ap.in.nodeEnv = "production"
     /\ ~NormalizeError(ap.pending, ap.in.template).isOperational) =>
        /\ Len(ap.responses) = 1
        /\ DOMAIN LastResponse.body = {"success", "message", "code", "timestamp"}
        /\ LastResponse.body["success"] = FALSE
        /\ LastResponse.body["message"] = ServerErrorMessage
        /\ LastResponse.body["code"] = "INTERNAL_SERVER_ERROR"

\* C20: when parsing the request yields a ZodError, the client gets exactly
\* one response, with status 422 and the field-level errors, the route
\* handler is not invoked, and the server process keeps running.
C20_ValidationRejects422 ==
    (/\ ap.pc \in {"done", "exited"}
     /\ ap.in.parsed.kind = "throw"
     /\ ap.in.parsed.err.class = "ZodError") =>
        /\ Len(ap.responses) = 1
        /\ LastResponse.status = 422
        /\ HasKey(LastResponse.body, "errors")
        /\ LastResponse.body["errors"] = FieldErrors(ZodIssues)
        /\ ~ap.handlerInvoked
        /\ ap.running


-----------------------------------------------------------------------------
(* Properties of the dereference step of convertZodToOpenAPI *)

\* the converter returned a document holding both `$ref` and `definitions`
BareRefWithDefinitions(doc) == HasKey(doc, "$ref") /\ HasKey(doc, "definitions")

\* C23: when the converter's document is a bare `$ref` with a `definitions`
\* map, convertZodToOpenAPI returns the definition named by the last segment
\* of the `$ref`, without `$schema`; in every other case it returns the
\* document without `$schema` and `definitions`; and the returned object never
\* holds a `$ref` into a `definitions` map that was removed from it.
C23_NoDanglingRef ==
    (cv.pc = "done" /\ cv.result.kind = "object") =>
        LET doc == cv.raw.val
            out == cv.result.val
        IN /\ IF BareRefWithDefinitions(doc)
              THEN /\ HasKey(doc["definitions"], LastSegment(doc["$ref"]))
                   /\ out = StripSchema(doc["definitions"][LastSegment(doc["$ref"])])
              ELSE out = StripDefinitions(StripSchema(doc))
           /\ ~(HasKey(out, "$ref") /\ HasKey(doc, "definitions")
                                    /\ ~HasKey(out, "definitions"))


-----------------------------------------------------------------------------
(* Properties of the order of the merges in a run of the CLI *)

SwaggerPart == MergedPart(cl.in.swagger, cl.in.swaggerFragment)
AuthPart == MergedPart(cl.in.auth, cl.in.authFragment)

\* C24 as stated: the auth fragment is merged before the swagger fragment
\* (the order of the questions), so the swagger fragment's value wins a key
\* both define.
C24_SelectionOrder ==
    cl.pkgFile # <<>> =>
        WrittenManifest = SetKey(MergedOf(MergedOf(cl.in.base.val, AuthPart), SwaggerPart),
                                 "name", cl.in.projectName)

\* C24: the fragment of a selected module is merged once and that of a
\* deselected module never, in the fixed order swagger, then auth: before the
\* auth step the manifest is the base with the swagger fragment alone, after
\* it the auth fragment is merged on top, and the auth fragment's value wins
\* every key both fragments define.
C24_SwaggerThenAuth ==
    /\ cl.pc = "swagger" => cl.mergedPkg = cl.in.base.val
    /\ cl.pc = "auth" => cl.mergedPkg = MergedOf(cl.in.base.val, SwaggerPart)
    /\ cl.pc \in {"strip", "write"} =>
          cl.mergedPkg = MergedOf(MergedOf(cl.in.base.val, SwaggerPart), AuthPart)
    /\ cl.pkgFile # <<>> =>
          /\ WrittenManifest = ExpectedManifest
          /\ \A s \in Sections :
                (HasKey(SwaggerPart, s) /\ HasKey(AuthPart, s)) =>
                    \A k \in DOMAIN SwaggerPart[s] \cap DOMAIN AuthPart[s] :
                        WrittenManifest[s][k] = AuthPart[s][k]

C24_Witness ==
    /\ Completed
    /\ cl.in.swagger /\ cl.in.swaggerFragment.kind = "object"
    /\ cl.in.auth /\ cl.in.authFragment.kind = "object"
    /\ SwaggerPart["dependencies"]["a"] = "2"
    /\ AuthPart["dependencies"]["a"] = "3"
    /\ WrittenManifest["dependencies"]["a"] = "3"
    /\ WrittenManifest["dependencies"]["@charcoles/swagger"] = "2"


-----------------------------------------------------------------------------
(* Properties of copyDirRecursive *)

\* the entry p below src, or a directory on the way down to it, is one that
\* the walk skips
SkippedBelow(from, src, p, excludeFiles, excludeDirs) ==
    \E n \in (Len(src) + 1)..Len(p) :
        \/ p[n] \in excludeFiles
        \/ EndsWithTgz(p[n])
        \/ SubSeq(p, 1, n) \in from.dirs /\ p[n] \in excludeDirs

\* the files below src that no test skips, at their relative paths below dest
FilesToCopy(from, src, dest, excludeFiles, excludeDirs) ==
    {dest \o SubSeq(f, Len(src) + 1, Len(f)) :
        f \in {g \in from.files :
                  IsUnder(g, src) /\ ~SkippedBelow(from, src, g, excludeFiles, excludeDirs)}}

BaseCopy ==
    CopyDirRecursive(cl.in.template, <<>>, <<>>, {"basePackage.json"}, {"modules"}, EmptyTree)

CopiedModules == {<<"src", "modules", "health">>}

\* C25: copyDirRecursive skips, at every depth, the entries named in the
\* excluded-files list, the directories named in the excluded-directories
\* list and the entries whose name ends in .tgz, and copies every other file
\* to the same relative path: after the copy step the target holds exactly
\* those files of the template and of its copied modules, and the base copy
\* holds no basePackage.json, no directory named modules and no tarball at
\* any depth.
C25_ExclusionsAtEveryDepth ==
    /\ cl.pc = "swagger" =>
          cl.tree.files =
              FilesToCopy(cl.in.template, <<>>, <<>>, {"basePackage.json"}, {"modules"})
              \cup UNION {FilesToCopy(cl.in.template, m, m, {"package.json"}, {}) :
                             m \in CopiedModules}
    /\ BaseCopy.files = FilesToCopy(cl.in.template, <<>>, <<>>, {"basePackage.json"}, {"modules"})
    /\ \A p \in BaseCopy.dirs \cup BaseCopy.files :
          \A n \in 1..Len(p) : p[n] \notin {"basePackage.json", "modules"} /\ ~EndsWithTgz(p[n])

C25_Witness ==
    /\ cl.pc = "swagger"
    /\ {<<"basePackage.json">>, <<"src", "config", "basePackage.json">>,
        <<"src", "config", TarballName>>,
        <<"src", "config", "modules", "index." \o cl.in.language>>,
        <<"src", "modules", "health", "package.json">>} \subseteq cl.in.template.files
    /\ SwaggerConfigPath(cl.in.language) \in cl.tree.files
    /\ <<"src", "config", "basePackage.json">> \notin cl.tree.files
    /\ <<"src", "config", "modules">> \notin cl.tree.dirs


-----------------------------------------------------------------------------
(* Properties of the customResponses option of setupSwagger *)

\* C26: every entry of customResponses is in components.responses of the
\* returned document whether includeCommonResponses is true or false, and
\* with includeCommonResponses false no common response name is there unless
\* customResponses defines it.
C26_CustomResponsesAlwaysPresent ==
    sw.pc = "returned" =>
        LET custom == SwOption("customResponses")
        IN /\ \A n \in DOMAIN custom : HasKey(SwResponses, n) /\ SwResponses[n] = custom[n]
           /\ ~SwOption("includeCommonResponses") =>
                 \A n \in CommonResponseNames \ DOMAIN custom : ~HasKey(SwResponses, n)


-----------------------------------------------------------------------------
(* Properties of asyncHandler *)

\* C22: what a handler wrapped by asyncHandler throws, or rejects its
\* promise with, reaches next exactly once and is never left in an unhandled
\* rejection; a handler that completes normally never makes next be called
\* with an error.
C22_AsyncHandlerCallsNextOnce ==
    ap.handlerInvoked =>
        /\ ap.in.handler.kind = "throw" =>
              /\ ap.nextErrors = <<ap.in.handler.err>>
              /\ ap.pc \notin {"rejected", "exited"}
              /\ ap.running
        /\ ap.in.handler.kind = "ok" => (ap.nextErrors = <<>> /\ ap.pending = NoError)

C22_Witness ==
    /\ ap.handlerInvoked
    /\ ap.in.handler.kind = "throw" /\ ap.in.handler.async
    /\ ap.in.express = "4"
    /\ ap.pc = "done"
    /\ ap.nextErrors = <<ap.in.handler.err>>
    /\ Len(ap.responses) = 1


-----------------------------------------------------------------------------
(* Properties of the auth module *)

AuResponses == {au.reqs[i].response[1] : i \in {j \in 1..MaxRequests : au.reqs[j].response # <<>>}}

ErrorShape == {"success", "message", "code", "statusCode", "timestamp"}

\* C21: every error response of a generated app is sent by the global
\* errorHandler and has the shape {success: false, message, code, statusCode,
\* timestamp}; no controller or middleware sends an error status itself.
C21_ErrorsOnlyFromErrorHandler ==
    \A r \in AuResponses :
        r.status >= 400 =>
            /\ r.by = "errorHandler"
            /\ ErrorShape \subseteq DOMAIN r.body
            /\ r.body["success"] = FALSE

\* C27: whatever the interleaving of the register calls, the repository
\* never holds two users with one email: of the registrations for one email
\* at most one succeeds, the others fail with "Email already in use".
C27_NoDuplicateEmail ==
    /\ \A i, j \in 1..Len(au.users) : i # j => au.users[i].email # au.users[j].email
    /\ \A i, j \in 1..MaxRequests :
          (/\ i # j
           /\ au.reqs[i].in.kind = "register" /\ au.reqs[j].in.kind = "register"
           /\ au.reqs[i].in.valid /\ au.reqs[i].in.email = au.reqs[j].in.email
           /\ au.reqs[i].response # <<>> /\ au.reqs[j].response # <<>>
           /\ au.reqs[i].response[1].status = 201)
          => au.reqs[j].response[1].body = [message |-> "Email already in use"]

\* C28: requireAuth either calls next() with req.user set to the verified
\* payload, only for a header that starts with "Bearer " whose token
\* verifies against a defined JWT_SECRET, or sends a 401 and does not call
\* next; the handler of GET /me is reached only in the first case.
C28_RequireAuthNextOr401 ==
    \A i \in 1..MaxRequests :
        LET req == au.reqs[i]
            verified == /\ req.in.header.scheme = "Bearer"
                        /\ req.in.header.token = "valid"
                        /\ au.secret
        IN (req.in.kind = "me" /\ req.pc = "done") =>
              /\ Len(req.response) = 1
              /\ req.nextCalled <=> verified
              /\ req.nextCalled =>
                    /\ req.user = <<VerifiedPayload>>
                    /\ req.response[1].by = "GET /me"
                    /\ req.response[1].status = 200
              /\ ~req.nextCalled =>
                    /\ req.user = <<>>
                    /\ req.response[1].by = "requireAuth"
                    /\ req.response[1].status = 401

C28_Witness ==
    /\ au.secret
    /\ au.reqs[1].in.kind = "me" /\ au.reqs[1].pc = "done" /\ au.reqs[1].nextCalled
    /\ au.reqs[2].in.kind = "me" /\ au.reqs[2].pc = "done" /\ ~au.reqs[2].nextCalled
    /\ au.reqs[2].in.header = [scheme |-> "Bearer", token |-> "expired"]
    /\ au.reqs[2].response[1].status = 401

\* a response body, or the user object in it, has a passwordHash
HoldsPasswordHash(body) ==
    \/ HasKey(body, "passwordHash")
    \/ HasKey(body, "user") /\ HasKey(body["user"], "passwordHash")

\* C29: no response body sent by register, login or GET /protected/me
\* holds a user's passwordHash.
C29_NoPasswordHashInResponses == \A r \in AuResponses : ~HoldsPasswordHash(r.body)


-----------------------------------------------------------------------------
(* Properties of the imports of a generated project *)

\* C30: whatever the auth and swagger flags, every relative import of a
\* file of the generated tree names a file of that tree; with auth not
\* selected no generated file imports from src/modules/auth.
C30_RelativeImportsResolve ==
    Completed =>
        /\ \A imp \in RelativeImports(cl.in.language) :
              imp.from \in cl.tree.files => imp.to \in cl.tree.files
        /\ (\E i \in 1..Len(cl.app) : Includes(cl.app[i], SwaggerConfigImport(cl.in.language)))
              => SwaggerConfigPath(cl.in.language) \in cl.tree.files
        /\ ~cl.in.auth =>
              \A imp \in RelativeImports(cl.in.language) :
                  imp.from \in cl.tree.files => ~IsUnder(imp.to, AuthModulePath)

=============================================================================
